---------------------------- MODULE Spec2Model ----------------------------
(***************************************************************************)
(* PageSpeed Diagnostics: the /api/analyze and /api/reports handlers, the  *)
(* persisted report store they share, and the report normalisation and     *)
(* rendering rules of the client components.                               *)
(*                                                                         *)
(* A handler is modelled one atomic step per await: the code between two   *)
(* awaits runs to completion on the event loop, the awaited call (session  *)
(* lookup, browser launch, engine run, database write, browser close)      *)
(* resolves or rejects in the next step.                                   *)
(***************************************************************************)
EXTENDS Integers, Sequences, FiniteSets, TLC

(***************************************************************************)
(* Bounds of the model.                                                    *)
(***************************************************************************)
\* analyze requests received one after the other in a run
MaxRequests == 2
\* analyze requests received in a run that starts from a store with a history
MaxHistoryRequests == 1
\* raw scores in [0,1] are the fractions 0/Scale .. Scale/Scale
Scale == 1000
\* audits referenced by the category a section is rendered for
MaxAudits == 2

(***************************************************************************)
(* Values.                                                                 *)
(***************************************************************************)
Users == {"u1", "u2"}

\* a score that is null (number | null)
NullScore == -1
\* lhr.categories[c] is undefined
MissingCat == -2

Categories == {"performance", "accessibility", "best-practices", "seo", "pwa"}

Methods == {"POST", "GET"}

\* req.body after the framework's body parser: null (the JSON text null), or
\* an object whose url is well formed, malformed or absent and whose
\* strategy is one of the enum's values, another string, or absent
NullBody == [isNull |-> TRUE, url |-> "absent", strategy |-> "absent"]
Bodies ==
    {NullBody} \cup
    [isNull : {FALSE},
     url : {"wellformed", "malformed", "absent"},
     strategy : {"mobile", "desktop", "tablet", "absent"}]

\* what getServerSession resolves to: null, a session without user, a user
\* without id, or a user with an id
Sessions ==
    {[present |-> FALSE, hasUser |-> FALSE, id |-> ""],
     [present |-> TRUE, hasUser |-> FALSE, id |-> ""],
     [present |-> TRUE, hasUser |-> TRUE, id |-> ""]} \cup
    {[present |-> TRUE, hasUser |-> TRUE, id |-> u] : u \in Users}

\* substrings the handler looks for in an error message
Markers ==
    {"ERR_NAME_NOT_RESOLVED", "ECONNREFUSED", "Protocol error", "Target closed",
     "Failed to launch the browser process", "performance mark has not been set",
     "Lighthouse failed early", "Lighthouse analysis failed to produce a report"}

\* an Error: whether it is a ZodError, whether it has a message, and which of
\* the markers its message contains
Err(marks) == [zod |-> FALSE, hasMessage |-> TRUE, marks |-> marks]
ZodError == [zod |-> TRUE, hasMessage |-> TRUE, marks |-> {}]
NoMessageError == [zod |-> FALSE, hasMessage |-> FALSE, marks |-> {}]

\* where a request failed, and the error thrown there
Failure(at, e) == [at |-> at, error |-> e]
NoFailure == Failure("none", NoMessageError)

\* what puppeteer.launch can reject with
LaunchErrors == {Err({"Failed to launch the browser process"}), Err({})}

\* what lighthouse() can reject with
EngineErrors ==
    {Err({"ERR_NAME_NOT_RESOLVED"}), Err({"ECONNREFUSED"}),
     Err({"Protocol error", "Target closed"}),
     Err({"performance mark has not been set"}),
     Err({}), NoMessageError}

\* the engine's report: per category the raw score, null, or no category
NoLhr == [categories |-> [c \in Categories |-> MissingCat]]
LhrSamples ==
    {[categories |-> [c \in Categories |->
          IF c = "performance" THEN (947 * Scale) \div 1000
          ELSE IF c = "accessibility" THEN Scale \div 2
          ELSE IF c = "pwa" THEN NullScore ELSE Scale]],
     [categories |-> [c \in Categories |->
          IF c = "performance" THEN 0
          ELSE IF c = "pwa" THEN MissingCat ELSE NullScore]]}


\* rows seeded into the store before the run (earlier analyses)
PrefillLen == 23

(***************************************************************************)
(* State.                                                                  *)
(***************************************************************************)
VARIABLES
    \* POST /api/analyze, one request at a time
    aPc,            \* where the handler is: the await it is suspended at
    aReq,           \* the request: method and parsed body
    userId,         \* session user id, "" when null/undefined
    browser,        \* the handler's browser variable: "null" or "launched"
    process,        \* the browser process: "none", "running", "terminated"
    responseData,   \* the normalised report built from the engine's lhr
    aRes,           \* the response sent (status 0: none yet)
    aTrace,         \* calls made by the handler, in order
    failure,        \* where the request failed and the error thrown there
    budget,         \* analyze requests the run may still receive
    \* the persisted reports (prisma.report), in insertion order
    store,
    now,            \* database clock
    \* GET /api/reports, one request at a time
    rPc, rReq, rSession, rUserId, rRes, rTrace,
    \* POST /api/security-scan, one request at a time
    sPc,            \* where the handler is
    sReq,           \* the request: method and parsed body
    malwareAndSecurityItems,    \* the handler's first list of check items
    blacklistItems, \* the handler's second list of check items
    responsePayload, \* the payload built from the two lists
    sRes,           \* the response sent (status 0: none yet)
    \* the client's report card
    shown,          \* scores shown for a received report: summary items, gauges
    reportCard,     \* what the last ReportCard rendered, and of which report
    \* one CategorySection
    category,       \* prop: the category object of lhr.categories
    allAudits,      \* prop: lhr.audits, by audit id
    showPassed,     \* state: passed audits expanded
    showManual,     \* state: manual checks expanded
    section,        \* what the last render of the section produced
    \* HomePage (the audit form)
    url,            \* state: the text of the url input
    formError,      \* state: the message under the form, "" when null
    mobileAnalysis, \* state: AnalysisState of the mobile audit
    desktopAnalysis, \* state: AnalysisState of the desktop audit
    activeTab,      \* state: the strategy whose tab is shown
    currentUrl,     \* handleSubmit's local: the trimmed url it submitted
    hPc,            \* where handleSubmit is: the call it is at or awaits
    inFlight,       \* POST /api/analyze requests sent and not yet settled
    hTrace,         \* requests posted and settled by the page, in order
    sessionStatus,  \* useSession().status: "loading", "authenticated", "unauthenticated"
    dbPastReports,  \* state: the rows of the last history response applied
    dbAveragePwaScore,      \* state: null, or a number
    sessionReports, \* state: the reports received since the page was loaded
    sessionAveragePwaScore, \* state: null, or the average of their pwa scores
    historyFetches, \* GET /api/reports requests in flight
    issued,         \* number of history fetches issued so far
    latest,         \* the answer to the most recently issued fetch that has one,
                    \* and the fetch whose response the page applied last
    \* SecurityCheckerPage (the scan form)
    checkerUrl,     \* state url: the text of the url input
    isLoading,      \* state: a scan is under way
    scanReport,     \* state: the scan's payload, or null
    error,          \* state: the message under the form, "" when null
    scanInFlight    \* POST /api/security-scan requests sent and not yet settled

analyzeVars ==
    <<aPc, aReq, userId, browser, process, responseData, aRes, aTrace, failure, budget>>
storeVars == <<store, now>>
reportsVars == <<rPc, rReq, rSession, rUserId, rRes, rTrace>>
scanVars == <<sPc, sReq, malwareAndSecurityItems, blacklistItems, responsePayload, sRes>>
serverVars == <<analyzeVars, storeVars, reportsVars, scanVars>>
sectionVars == <<category, allAudits, showPassed, showManual, section>>
homeVars ==
    <<url, formError, mobileAnalysis, desktopAnalysis, activeTab, currentUrl, hPc, inFlight, hTrace>>
checkerVars == <<checkerUrl, isLoading, scanReport, error, scanInFlight>>
pastVars ==
    <<sessionStatus, dbPastReports, dbAveragePwaScore, sessionReports, sessionAveragePwaScore,
      historyFetches, issued, latest>>
pageVars == <<homeVars, checkerVars, pastVars>>
clientVars == <<shown, reportCard, sectionVars, pageVars>>
vars == <<serverVars, clientVars>>

(***************************************************************************)
(* Report normalisation (analyze.ts, responseData).                        *)
(***************************************************************************)
\* Math.round(num/den): the nearest integer, halves rounded up
MathRound(num, den) == (2 * num + den) \div (2 * den)

\* (mutant) the product is cut to an integer instead of rounded
NormalizeScoreTruncated(raw) ==
    IF raw = MissingCat \/ raw = NullScore THEN NullScore
    ELSE (raw * 100) \div Scale

\* cat?.score != null ? Math.round(cat.score * 100) : null
NormalizeScore(raw) ==
    IF raw = MissingCat \/ raw = NullScore THEN NullScore
    ELSE MathRound(raw * 100, Scale)

NoData ==
    [url |-> "", strategy |-> "", scores |-> [c \in Categories |-> NullScore],
     full |-> NoLhr]

ResponseData(body, lhr) ==
    [url |-> body.url, strategy |-> body.strategy,
     scores |-> [c \in Categories |-> NormalizeScore(lhr.categories[c])],
     full |-> lhr]

(***************************************************************************)
(* Request checks.                                                         *)
(***************************************************************************)
MethodAllowed(method) == method = "POST"

\* session?.user ? session.user.id : null
SessionUserId(session) ==
    IF session.present /\ session.hasUser THEN session.id ELSE ""

\* const { url, strategy } = req.body throws a TypeError on null
Destructurable(body) == ~body.isNull

\* urls the schema accepts: one without any of the markers in its text, and
\* one like https://example.com/ECONNREFUSED
WellformedUrls == {"wellformed", "wellformed/ECONNREFUSED"}

\* the markers the text of a url contains
MarkersIn(text) == IF text = "wellformed/ECONNREFUSED" THEN {"ECONNREFUSED"} ELSE {}

\* analyzeSchema.parse(req.body)
analyzeSchema(body) ==
    /\ ~body.isNull
    /\ body.url \in WellformedUrls
    /\ body.strategy \in {"desktop", "mobile"}

\* (mutant) every report is persisted, signed in or not
AlwaysPersist(uid) == TRUE

\* if (userId)
ShouldPersist(uid) == uid # ""

(***************************************************************************)
(* Responses.                                                              *)
(***************************************************************************)
NoDetails == [kind |-> "none", marks |-> {}]
NoRes == [status |-> 0, message |-> "", errorDetails |-> NoDetails, data |-> NoData]

Res405 ==
    [status |-> 405, message |-> "Method Not Allowed",
     errorDetails |-> NoDetails, data |-> NoData]

ResPortNotFound ==
    [status |-> 500, message |-> "Internal server error: Puppeteer port not found.",
     errorDetails |-> NoDetails, data |-> NoData]

Res200(data) ==
    [status |-> 200, message |-> "", errorDetails |-> NoDetails, data |-> data]

\* the inner catch around lighthouse(): an early failure is rethrown wrapped,
\* with the url and the original message quoted in the new one
WrapEngineError(e, target) ==
    IF e.hasMessage /\ "performance mark has not been set" \in e.marks
    THEN Err(e.marks \cup {"Lighthouse failed early"} \cup MarkersIn(target))
    ELSE e

\* errorMessage of the outer catch
ErrorDetails(e) ==
    IF ~e.hasMessage THEN [kind |-> "default", marks |-> {}]
    ELSE IF "ERR_NAME_NOT_RESOLVED" \in e.marks \/ "ECONNREFUSED" \in e.marks
         THEN [kind |-> "resolve", marks |-> {}]
    ELSE IF "Protocol error" \in e.marks /\ "Target closed" \in e.marks
         THEN [kind |-> "crashed", marks |-> {}]
    ELSE IF "Failed to launch the browser process" \in e.marks
         THEN [kind |-> "launch", marks |-> {}]
    ELSE IF \/ "performance mark has not been set" \in e.marks
            \/ "Lighthouse failed early" \in e.marks
            \/ "Lighthouse analysis failed to produce a report" \in e.marks
         THEN [kind |-> "verbatim", marks |-> e.marks]
    ELSE [kind |-> "unexpected", marks |-> e.marks]

\* the outer catch block's response
CatchResponse(e) ==
    IF e.zod
    THEN [status |-> 400, message |-> "Validation failed",
          errorDetails |-> NoDetails, data |-> NoData]
    ELSE [status |-> 500, message |-> "Error during Lighthouse analysis",
          errorDetails |-> ErrorDetails(e), data |-> NoData]

\* (mutant) a handler without the finally block
FinallyNeverCloses(br) == FALSE

\* the finally block: if (browser) ... await browser.close()
FinallyCloses(br) == br # "null"

\* (mutant) an error of the final close() reaches the caller
CloseErrorSurfaces(res) == CatchResponse(Err({}))

\* the finally block's catch around close(): the error is logged, nothing else
AfterCloseError(res) == res

\* (mutant) a failed write is not caught and reaches the outer catch
CreateErrorSurfaces(ok, data) == IF ok THEN Res200(data) ELSE CatchResponse(Err({}))

\* the catch around prisma.report.create: the error is logged and the handler
\* goes on to send the report
AfterCreate(ok, data) == Res200(data)

(***************************************************************************)
(* The report store.                                                       *)
(***************************************************************************)
\* data of prisma.report.create; createdAt is the column's default, now()
ReportRow(data, uid, t) ==
    [userId |-> uid, createdAt |-> t, url |-> data.url, strategy |-> data.strategy,
     scores |-> data.scores, metrics |-> data.full.categories]

\* take: 20
Take == 20

\* where: { userId }
RowsOf(rows, uid) ==
    LET F[i \in 0..Len(rows)] ==
            IF i = 0 THEN <<>>
            ELSE IF rows[i].userId = uid THEN Append(F[i - 1], rows[i]) ELSE F[i - 1]
    IN F[Len(rows)]

\* orderBy: { createdAt: 'desc' }
RECURSIVE OrderByCreatedAtDesc(_)
OrderByCreatedAtDesc(s) ==
    IF s = <<>> THEN <<>>
    ELSE LET i == CHOOSE k \in 1..Len(s) :
                      /\ \A j \in 1..Len(s) : s[j].createdAt <= s[k].createdAt
                      /\ \A j \in (k + 1)..Len(s) : s[j].createdAt < s[k].createdAt
             rest == [j \in 1..(Len(s) - 1) |-> IF j < i THEN s[j] ELSE s[j + 1]]
         IN <<s[i]>> \o OrderByCreatedAtDesc(rest)

FirstN(s, n) == IF Len(s) <= n THEN s ELSE SubSeq(s, 1, n)

\* (mutant) a query without the where clause
FindManyOfAnyone(rows, uid) == FirstN(OrderByCreatedAtDesc(rows), Take)

\* prisma.report.findMany({ where: { userId }, orderBy, take })
FindMany(rows, uid) == FirstN(OrderByCreatedAtDesc(RowsOf(rows, uid)), Take)

(***************************************************************************)
(* POST /api/analyze.                                                      *)
(***************************************************************************)
\* The handler sends res and leaves the try statement: the finally block
\* runs, and with a browser to close the handler is suspended at close().
Finish(res, br, tr) ==
    /\ aRes' = res
    /\ IF FinallyCloses(br)
       THEN /\ aTrace' = tr \o <<"respond", "close">>
            /\ aPc' = "closing"
       ELSE /\ aTrace' = tr \o <<"respond">>
            /\ aPc' = "done"

\* (mutant) the session is looked up before the method is tested
AnalyzeReceiveSessionFirst(method, body) ==
    /\ aPc \in {"idle", "done", "rejected"}
    /\ budget > 0
    /\ budget' = budget - 1
    /\ aReq' = [method |-> method, body |-> body]
    /\ userId' = ""
    /\ browser' = "null"
    /\ process' = "none"
    /\ responseData' = NoData
    /\ failure' = NoFailure
    /\ IF MethodAllowed(method)
       THEN /\ aRes' = NoRes
            /\ aTrace' = <<"session">>
            /\ aPc' = "session"
       ELSE /\ aRes' = Res405
            /\ aTrace' = <<"session", "respond">>
            /\ aPc' = "done"
    /\ UNCHANGED <<storeVars, reportsVars, scanVars, clientVars>>

\* A request arrives at an idle handler. Anything but POST is answered 405 at
\* once; otherwise the handler awaits getServerSession.
AnalyzeReceive(method, body) ==
    /\ aPc \in {"idle", "done", "rejected"}
    /\ budget > 0
    /\ budget' = budget - 1
    /\ aReq' = [method |-> method, body |-> body]
    /\ userId' = ""
    /\ browser' = "null"
    /\ process' = "none"
    /\ responseData' = NoData
    /\ failure' = NoFailure
    /\ IF MethodAllowed(method)
       THEN /\ aRes' = NoRes
            /\ aTrace' = <<"session">>
            /\ aPc' = "session"
       ELSE /\ aRes' = Res405
            /\ aTrace' = <<"respond">>
            /\ aPc' = "done"
    /\ UNCHANGED <<storeVars, reportsVars, scanVars, clientVars>>

\* getServerSession resolves. The body is destructured outside the try
\* statement: a null body throws there, the handler's promise rejects and the
\* handler sends nothing. Inside the try, a body the schema refuses is
\* answered 400 by the catch block; otherwise puppeteer.launch is awaited.
AnalyzeSession(session) ==
    /\ aPc = "session"
    /\ userId' = SessionUserId(session)
    /\ IF ~Destructurable(aReq.body)
       THEN /\ aPc' = "rejected"
            /\ UNCHANGED <<aRes, aTrace, failure>>
       ELSE IF ~analyzeSchema(aReq.body)
       THEN /\ Finish(CatchResponse(ZodError), browser, aTrace)
            /\ failure' = Failure("validation", ZodError)
       ELSE /\ aPc' = "launch"
            /\ aTrace' = Append(aTrace, "launch")
            /\ aRes' = aRes
            /\ UNCHANGED failure
    /\ UNCHANGED <<aReq, browser, process, responseData, budget, storeVars, reportsVars,
                   scanVars, clientVars>>

\* puppeteer.launch rejects: browser is still null
AnalyzeLaunchFails(e) ==
    /\ aPc = "launch"
    /\ Finish(CatchResponse(e), browser, aTrace)
    /\ failure' = Failure("launch", e)
    /\ UNCHANGED <<aReq, userId, browser, process, responseData, budget, storeVars,
                   reportsVars, scanVars, clientVars>>

\* puppeteer.launch resolves and the endpoint has a port: lighthouse() is
\* awaited
AnalyzeLaunched ==
    /\ aPc = "launch"
    /\ browser' = "launched"
    /\ process' = "running"
    /\ aTrace' = Append(aTrace, "engine")
    /\ aPc' = "engine"
    /\ UNCHANGED <<aReq, failure, userId, responseData, aRes, budget, storeVars, reportsVars,
                   scanVars, clientVars>>

\* puppeteer.launch resolves and the endpoint has no port: close() is awaited
\* inside the try statement
AnalyzeLaunchedNoPort ==
    /\ aPc = "launch"
    /\ browser' = "launched"
    /\ process' = "running"
    /\ aTrace' = Append(aTrace, "close")
    /\ aPc' = "portClose"
    /\ UNCHANGED <<aReq, failure, userId, responseData, aRes, budget, storeVars, reportsVars,
                   scanVars, clientVars>>

\* puppeteer.launch resolves and new URL(browserWSEndpoint) throws
AnalyzeLaunchedBadEndpoint ==
    /\ aPc = "launch"
    /\ browser' = "launched"
    /\ process' = "running"
    /\ Finish(CatchResponse(Err({})), "launched", aTrace)
    /\ failure' = Failure("endpoint", Err({}))
    /\ UNCHANGED <<aReq, userId, responseData, budget, storeVars, reportsVars,
                   scanVars, clientVars>>

\* the close() of the port-not-found path resolves: 500 is returned from the
\* try statement, and the finally block closes again
AnalyzePortClosed ==
    /\ aPc = "portClose"
    /\ process' = "terminated"
    /\ Finish(ResPortNotFound, browser, aTrace)
    /\ failure' = Failure("port", NoMessageError)
    /\ UNCHANGED <<aReq, userId, browser, responseData, budget, storeVars, reportsVars,
                   scanVars, clientVars>>

\* the close() of the port-not-found path rejects: the catch block answers
AnalyzePortCloseFails ==
    /\ aPc = "portClose"
    /\ Finish(CatchResponse(Err({})), browser, aTrace)
    /\ failure' = Failure("portClose", Err({}))
    /\ UNCHANGED <<aReq, userId, browser, process, responseData, budget, storeVars,
                   reportsVars, scanVars, clientVars>>

\* (mutant) a failed engine run is attempted again
AnalyzeEngineRetries(e) ==
    /\ aPc = "engine"
    /\ aTrace' = Append(aTrace, "engine")
    /\ UNCHANGED <<aPc, aReq, failure, userId, browser, process, responseData, aRes, budget,
                   storeVars, reportsVars, scanVars, clientVars>>

\* lighthouse() rejects: the inner catch rethrows, the outer catch answers
AnalyzeEngineThrows(e) ==
    /\ aPc = "engine"
    /\ Finish(CatchResponse(WrapEngineError(e, aReq.body.url)), browser, aTrace)
    /\ failure' = Failure("engine", e)
    /\ UNCHANGED <<aReq, userId, browser, process, responseData, budget, storeVars,
                   reportsVars, scanVars, clientVars>>

\* lighthouse() resolves without a result or without an lhr
AnalyzeEngineNoReport ==
    /\ aPc = "engine"
    /\ Finish(CatchResponse(Err({"Lighthouse analysis failed to produce a report"})),
              browser, aTrace)
    /\ failure' = Failure("noReport", Err({"Lighthouse analysis failed to produce a report"}))
    /\ UNCHANGED <<aReq, userId, browser, process, responseData, budget, storeVars,
                   reportsVars, scanVars, clientVars>>

\* lighthouse() resolves with a report: responseData is built; with a user id
\* prisma.report.create is awaited, without one the report is sent
AnalyzeEngineReturns(lhr) ==
    /\ aPc = "engine"
    /\ responseData' = ResponseData(aReq.body, lhr)
    /\ IF ShouldPersist(userId)
       THEN /\ aTrace' = Append(aTrace, "create")
            /\ aPc' = "persist"
            /\ aRes' = aRes
       ELSE Finish(Res200(responseData'), browser, aTrace)
    /\ UNCHANGED <<aReq, failure, userId, browser, process, budget, storeVars, reportsVars,
                   scanVars, clientVars>>

\* (mutant) the latest row is overwritten when there is one
createOrUpdate(rows, row) ==
    IF rows = <<>> THEN <<row>> ELSE [rows EXCEPT ![Len(rows)] = row]

\* prisma.report.create: one more row
create(rows, row) == Append(rows, row)

\* prisma.report.create resolves: the row is in the store
AnalyzeCreated ==
    /\ aPc = "persist"
    /\ now' = now + 1
    /\ store' = create(store, ReportRow(responseData, userId, now'))
    /\ Finish(AfterCreate(TRUE, responseData), browser, aTrace)
    /\ UNCHANGED <<aReq, failure, userId, browser, process, responseData, budget, reportsVars,
                   scanVars, clientVars>>

\* prisma.report.create rejects: no row
AnalyzeCreateFails ==
    /\ aPc = "persist"
    /\ Finish(AfterCreate(FALSE, responseData), browser, aTrace)
    /\ UNCHANGED <<aReq, failure, userId, browser, process, responseData, budget, storeVars,
                   reportsVars, scanVars, clientVars>>

\* the finally block's close() resolves
AnalyzeClosed ==
    /\ aPc = "closing"
    /\ process' = "terminated"
    /\ aPc' = "done"
    /\ UNCHANGED <<aReq, failure, userId, browser, responseData, aRes, aTrace, budget, storeVars,
                   reportsVars, scanVars, clientVars>>

\* the finally block's close() rejects
AnalyzeCloseFails ==
    /\ aPc = "closing"
    /\ aRes' = AfterCloseError(aRes)
    /\ aPc' = "done"
    /\ UNCHANGED <<aReq, failure, userId, browser, process, responseData, aTrace, budget,
                   storeVars, reportsVars, scanVars, clientVars>>

(***************************************************************************)
(* GET /api/reports.                                                       *)
(***************************************************************************)
NoRows == [status |-> 0, message |-> "", rows |-> <<>>]
NoSession == [present |-> FALSE, hasUser |-> FALSE, id |-> ""]

\* (mutant) the id of the session's user is not looked at
UnauthorizedWithoutIdCheck(session) == ~session.present \/ ~session.hasUser

\* !session || !session.user || !session.user.id
Unauthorized(session) == ~session.present \/ ~session.hasUser \/ session.id = ""

ReportsReceive(method) ==
    /\ rPc \in {"idle", "done"}
    /\ rReq' = [method |-> method]
    /\ rSession' = NoSession
    /\ rUserId' = ""
    /\ IF method = "GET"
       THEN /\ rRes' = NoRows
            /\ rTrace' = <<"session">>
            /\ rPc' = "session"
       ELSE /\ rRes' = [status |-> 405, message |-> "Method Not Allowed", rows |-> <<>>]
            /\ rTrace' = <<"respond">>
            /\ rPc' = "done"
    /\ UNCHANGED <<analyzeVars, storeVars, scanVars, clientVars>>

\* getServerSession resolves: 401 without an identity, else findMany is awaited
ReportsSession(session) ==
    /\ rPc = "session"
    /\ rSession' = session
    /\ IF Unauthorized(session)
       THEN /\ rRes' = [status |-> 401, message |-> "Unauthorized", rows |-> <<>>]
            /\ rTrace' = Append(rTrace, "respond")
            /\ rPc' = "done"
            /\ rUserId' = rUserId
       ELSE /\ rUserId' = session.id
            /\ rTrace' = Append(rTrace, "findMany")
            /\ rPc' = "query"
            /\ rRes' = rRes
    /\ UNCHANGED <<rReq, analyzeVars, storeVars, scanVars, clientVars>>

\* findMany resolves with the rows of the store as it is now
ReportsFound ==
    /\ rPc = "query"
    /\ rRes' = [status |-> 200, message |-> "", rows |-> FindMany(store, rUserId)]
    /\ rTrace' = Append(rTrace, "respond")
    /\ rPc' = "done"
    /\ UNCHANGED <<rReq, rSession, rUserId, analyzeVars, storeVars, scanVars, clientVars>>

\* findMany rejects
ReportsQueryFails ==
    /\ rPc = "query"
    /\ rRes' = [status |-> 500, message |-> "Error fetching reports", rows |-> <<>>]
    /\ rTrace' = Append(rTrace, "respond")
    /\ rPc' = "done"
    /\ UNCHANGED <<rReq, rSession, rUserId, analyzeVars, storeVars, scanVars, clientVars>>

(***************************************************************************)
(* The client: scores shown for a report (ReportCard, CategorySection).    *)
(***************************************************************************)
\* the categories the report card and the diagnostics show
DisplayCategories == {"performance", "accessibility", "best-practices", "seo"}

\* (mutant) the gauge shows the score cut to an integer
categoryScoreTruncated(score) ==
    IF score = NullScore THEN NullScore ELSE (score * 100) \div Scale

\* CategorySection: category.score != null ? Math.round(category.score * 100) : null
categoryScore(score) ==
    IF score = NullScore THEN NullScore ELSE MathRound(score * 100, Scale)

\* ReportCard: report.xScore ?? (lhrCategories?.x?.score != null
\*                                 ? Math.round(lhrCategories.x.score * 100) : null)
ReportCardScore(top, raw) ==
    IF top # NullScore THEN top
    ELSE IF raw = MissingCat \/ raw = NullScore THEN NullScore
    ELSE MathRound(raw * 100, Scale)

\* the classes of a gauge that is not drawn
NoColour == [ring |-> "", text |-> ""]

\* CategorySection: the classes of the category's gauge
CategoryGaugeColour(score) ==
    IF score = NullScore THEN NoColour
    ELSE IF score >= 90 THEN [ring |-> "text-green-500", text |-> "text-green-600"]
    ELSE IF score >= 50 THEN [ring |-> "text-yellow-500", text |-> "text-yellow-600"]
    ELSE [ring |-> "text-red-500", text |-> "text-red-600"]

\* (mutant) a summary item of score 50 is red
CategoryScoreItemAbove50(score) ==
    IF score = NullScore THEN [ring |-> "text-gray-300", text |-> "text-gray-500"]
    ELSE IF score >= 90 THEN [ring |-> "text-green-500", text |-> "text-green-700"]
    ELSE IF score > 50 THEN [ring |-> "text-yellow-500", text |-> "text-yellow-700"]
    ELSE [ring |-> "text-red-500", text |-> "text-red-700"]

\* CategoryScoreItem: arcColorClass and textColorClass
CategoryScoreItem(score) ==
    IF score = NullScore THEN [ring |-> "text-gray-300", text |-> "text-gray-500"]
    ELSE IF score >= 90 THEN [ring |-> "text-green-500", text |-> "text-green-700"]
    ELSE IF score >= 50 THEN [ring |-> "text-yellow-500", text |-> "text-yellow-700"]
    ELSE [ring |-> "text-red-500", text |-> "text-red-700"]

\* PerformanceGauge: ringColor and textColor, nothing for a null score
PerformanceGauge(score) ==
    IF score = NullScore THEN NoColour
    ELSE IF score >= 90 THEN [ring |-> "text-green-500", text |-> "text-green-600"]
    ELSE IF score >= 50 THEN [ring |-> "text-yellow-500", text |-> "text-yellow-600"]
    ELSE [ring |-> "text-red-500", text |-> "text-red-600"]

NoShown ==
    [rendered |-> FALSE, withTop |-> FALSE,
     card |-> [c \in DisplayCategories |-> NullScore],
     gauge |-> [c \in DisplayCategories |-> NullScore],
     cardColour |-> [c \in DisplayCategories |-> NoColour],
     gaugeColour |-> [c \in DisplayCategories |-> NoColour],
     performanceGauge |-> NoColour]

\* The client has a 200 of /api/analyze and derives the numbers it shows: the
\* summary items of the report card, from a report object that carries the
\* top-level scores or one that does not, the gauge of each category present
\* in the report and the performance gauge, each with its colour classes.
ClientScores(withTop) ==
    /\ aRes.status = 200
    /\ LET card == [c \in DisplayCategories |->
                       ReportCardScore(IF withTop THEN aRes.data.scores[c] ELSE NullScore,
                                       aRes.data.full.categories[c])]
           gauge == [c \in DisplayCategories |->
                        IF aRes.data.full.categories[c] = MissingCat THEN NullScore
                        ELSE categoryScore(aRes.data.full.categories[c])]
       IN shown' =
              [rendered |-> TRUE, withTop |-> withTop,
               card |-> card,
               gauge |-> gauge,
               cardColour |-> [c \in DisplayCategories |-> CategoryScoreItem(card[c])],
               gaugeColour |-> [c \in DisplayCategories |-> CategoryGaugeColour(gauge[c])],
               performanceGauge |-> PerformanceGauge(card["performance"])]
    /\ UNCHANGED <<serverVars, reportCard, sectionVars, pageVars>>

\* the report object handed to ReportCard: the page's current report is the
\* body of a 200 of /api/analyze, a past report is a row of /api/reports,
\* which has the top-level scores and no fullLighthouseDetails
CurrentReport(data) ==
    [url |-> data.url, scores |-> data.scores, hasDetails |-> TRUE, hasFinalUrl |-> TRUE,
     categories |-> data.full.categories]
PastReport(row) ==
    [url |-> row.url, scores |-> row.scores, hasDetails |-> FALSE, hasFinalUrl |-> FALSE,
     categories |-> [c \in Categories |-> MissingCat]]

\* (mutant) a card that draws the detail sections of every report
ReportCardAlwaysDetailed(report) ==
    {"header", "scores", "performanceGauge", "metrics", "diagnostics"}

\* ReportCard: the parts of the card that are rendered
ReportCard(report) ==
    LET performanceScore ==
            ReportCardScore(report.scores["performance"], report.categories["performance"])
    IN IF ~report.hasFinalUrl /\ report.url = "" /\ performanceScore = NullScore
       THEN {"incomplete"}
       ELSE {"header", "scores"} \cup
            (IF report.hasDetails
             THEN {"performanceGauge", "metrics", "diagnostics"} ELSE {}) \cup
            (IF ~report.hasDetails /\ performanceScore # NullScore
             THEN {"unavailable"} ELSE {})

NoCard ==
    [of |-> "none", parts |-> {},
     report |-> [url |-> "", scores |-> [c \in Categories |-> NullScore],
                 hasDetails |-> FALSE, hasFinalUrl |-> FALSE,
                 categories |-> [c \in Categories |-> MissingCat]]]

\* <ReportCard report={displayedAnalysis.report} isCurrent />
ClientCurrentCard ==
    /\ aRes.status = 200
    /\ reportCard' = [of |-> "current", report |-> CurrentReport(aRes.data),
                      parts |-> ReportCard(CurrentReport(aRes.data))]
    /\ UNCHANGED <<serverVars, shown, sectionVars, pageVars>>

\* dbPastReports.map((report) => <ReportCard key={report.id} report={report} />)
ClientPastCard ==
    /\ rRes.status = 200
    /\ \E i \in 1..Len(rRes.rows) :
           reportCard' = [of |-> "past", report |-> PastReport(rRes.rows[i]),
                          parts |-> ReportCard(PastReport(rRes.rows[i]))]
    /\ UNCHANGED <<serverVars, shown, sectionVars, pageVars>>

(***************************************************************************)
(* The client: one CategorySection and its AuditItems.                     *)
(***************************************************************************)
Modes == {"numeric", "opportunity", "manual", "informative", "notApplicable", "error"}

\* audit.score: null, 0, 0.5, 0.9 or 1
AuditScores == {NullScore, 0, Scale \div 2, (9 * Scale) \div 10, Scale}

\* allAudits[ref.id]: an audit, or undefined
Audit(id, score, mode) == [defined |-> TRUE, id |-> id, score |-> score, mode |-> mode]
UndefinedAudit(id) == [defined |-> FALSE, id |-> id, score |-> NullScore, mode |-> "numeric"]

AuditsOf(id) == {UndefinedAudit(id)} \cup {Audit(id, sc, m) : sc \in AuditScores, m \in Modes}

\* lhr.audits for a category with n audit references
AuditMaps(n) == {a \in [1..n -> UNION {AuditsOf(i) : i \in 1..n}] : \A i \in 1..n : a[i].id = i}

\* category.score: null, 0.5 or 0.947
CategoryScores == {NullScore, Scale \div 2, (947 * Scale) \div 1000}

Keep(s, ok) ==
    LET F[i \in 0..Len(s)] ==
            IF i = 0 THEN <<>>
            ELSE IF ok[i] THEN Append(F[i - 1], s[i]) ELSE F[i - 1]
    IN F[Len(s)]

\* (mutant) no audit is dropped for its display mode
relevantAuditsUnfiltered(cat, audits) ==
    LET mapped == [i \in 1..Len(cat.auditRefs) |-> audits[cat.auditRefs[i]]]
    IN Keep(mapped, [i \in 1..Len(mapped) |-> mapped[i].defined])

\* category.auditRefs.map(ref => allAudits[ref.id]).filter(audit => audit && ...)
relevantAudits(cat, audits) ==
    LET mapped == [i \in 1..Len(cat.auditRefs) |-> audits[cat.auditRefs[i]]]
    IN Keep(mapped, [i \in 1..Len(mapped) |->
                        /\ mapped[i].defined
                        /\ mapped[i].mode # "notApplicable"
                        /\ mapped[i].mode # "error"])

\* (mutant) manual audits are not kept out of opportunities and diagnostics
opportunitiesAndDiagnosticsWithManual(rel) ==
    Keep(rel, [i \in 1..Len(rel) |-> rel[i].score # NullScore /\ rel[i].score < Scale])

\* relevantAudits.filter(audit => audit.score !== null && audit.score < 1 && ...)
opportunitiesAndDiagnostics(rel) ==
    Keep(rel, [i \in 1..Len(rel) |->
                  rel[i].score # NullScore /\ rel[i].score < Scale /\ rel[i].mode # "manual"])

manualChecks(rel) == Keep(rel, [i \in 1..Len(rel) |-> rel[i].mode = "manual"])

\* (mutant) an informative audit of score 1 counts as passed
passedAuditsWithInformative(rel) ==
    Keep(rel, [i \in 1..Len(rel) |-> rel[i].score = Scale /\ rel[i].mode # "manual"])


passedAudits(rel) ==
    Keep(rel, [i \in 1..Len(rel) |->
                  /\ rel[i].score = Scale
                  /\ rel[i].mode # "manual"
                  /\ rel[i].mode # "informative"])

\* (mutant) a manual audit is blue whatever its score
AuditItemManualFirst(audit, isPassed) ==
    LET look ==
            IF isPassed THEN [icon |-> "check", color |-> "green"]
            ELSE IF audit.mode = "opportunity" THEN [icon |-> "bulb", color |-> "yellow"]
            ELSE IF audit.mode = "manual" THEN [icon |-> "info", color |-> "blue"]
            ELSE IF audit.score # NullScore
                 THEN IF 10 * audit.score >= 9 * Scale THEN [icon |-> "check", color |-> "green"]
                      ELSE IF 2 * audit.score >= Scale
                           THEN [icon |-> "warning", color |-> "yellow"]
                           ELSE [icon |-> "warning", color |-> "red"]
            ELSE [icon |-> "info", color |-> "slate"]
    IN [rendered |-> audit.mode # "notApplicable" /\ audit.mode # "error",
        id |-> audit.id, isPassed |-> isPassed, icon |-> look.icon, color |-> look.color]

\* AuditItem: the row of one audit, or nothing
AuditItem(audit, isPassed) ==
    LET look ==
            IF isPassed THEN [icon |-> "check", color |-> "green"]
            ELSE IF audit.mode = "opportunity" THEN [icon |-> "bulb", color |-> "yellow"]
            ELSE IF audit.score # NullScore
                 THEN IF 10 * audit.score >= 9 * Scale THEN [icon |-> "check", color |-> "green"]
                      ELSE IF 2 * audit.score >= Scale
                           THEN [icon |-> "warning", color |-> "yellow"]
                           ELSE [icon |-> "warning", color |-> "red"]
            ELSE IF audit.mode = "manual" THEN [icon |-> "info", color |-> "blue"]
            ELSE [icon |-> "info", color |-> "slate"]
    IN [rendered |-> audit.mode # "notApplicable" /\ audit.mode # "error",
        id |-> audit.id, isPassed |-> isPassed, icon |-> look.icon, color |-> look.color]

\* the rows a list of audits renders to
AuditItems(list, isPassed) ==
    LET items == [i \in 1..Len(list) |-> AuditItem(list[i], isPassed)]
    IN Keep(items, [i \in 1..Len(items) |-> items[i].rendered])

NoSection == [rendered |-> FALSE, gauge |-> NullScore, rows |-> <<>>]

\* (mutant) the section is rendered although its three buckets are empty
CategorySectionOfEmptyBuckets(cat, audits, passedOpen, manualOpen) ==
    IF ~cat.hasAuditRefs \/ cat.id = "pwa" THEN NoSection
    ELSE LET rel == relevantAudits(cat, audits)
             opp == opportunitiesAndDiagnostics(rel)
             man == manualChecks(rel)
             pas == passedAudits(rel)
         IN [rendered |-> TRUE,
             gauge |-> categoryScore(cat.score),
             rows |-> AuditItems(opp, FALSE)
                      \o (IF manualOpen THEN AuditItems(man, FALSE) ELSE <<>>)
                      \o (IF passedOpen THEN AuditItems(pas, TRUE) ELSE <<>>)]


\* CategorySection({ category, allAudits }) with its two toggles
CategorySection(cat, audits, passedOpen, manualOpen) ==
    IF ~cat.hasAuditRefs \/ cat.id = "pwa" THEN NoSection
    ELSE LET rel == relevantAudits(cat, audits)
             opp == opportunitiesAndDiagnostics(rel)
             man == manualChecks(rel)
             pas == passedAudits(rel)
         IN IF Len(opp) = 0 /\ Len(man) = 0 /\ Len(pas) = 0 THEN NoSection
            ELSE [rendered |-> TRUE,
                  gauge |-> categoryScore(cat.score),
                  rows |-> AuditItems(opp, FALSE)
                           \o (IF manualOpen THEN AuditItems(man, FALSE) ELSE <<>>)
                           \o (IF passedOpen THEN AuditItems(pas, TRUE) ELSE <<>>)]

\* the category objects a section is rendered for: a category with its audit
\* references and score, the pwa category, a category without auditRefs
CategoryProps ==
    {[id |-> "performance", hasAuditRefs |-> TRUE, score |-> sc,
      auditRefs |-> [i \in 1..n |-> i]] : sc \in CategoryScores, n \in 0..MaxAudits}
    \cup {[id |-> "pwa", hasAuditRefs |-> TRUE, score |-> Scale \div 2,
           auditRefs |-> [i \in 1..n |-> i]] : n \in {MaxAudits}}
    \cup {[id |-> "seo", hasAuditRefs |-> FALSE, score |-> Scale \div 2, auditRefs |-> <<>>]}

\* the button of the manual checks, there when the section has any
ToggleManual ==
    /\ section.rendered
    /\ Len(manualChecks(relevantAudits(category, allAudits))) > 0
    /\ showManual' = ~showManual
    /\ section' = CategorySection(category, allAudits, showPassed, showManual')
    /\ UNCHANGED <<category, allAudits, showPassed, shown, reportCard, serverVars, pageVars>>

\* the button of the passed audits, there when the section has any
TogglePassed ==
    /\ section.rendered
    /\ Len(passedAudits(relevantAudits(category, allAudits))) > 0
    /\ showPassed' = ~showPassed
    /\ section' = CategorySection(category, allAudits, showPassed', showManual)
    /\ UNCHANGED <<category, allAudits, showManual, shown, reportCard, serverVars, pageVars>>

(***************************************************************************)
(* The client: HomePage, its form and the two audits of one submission.    *)
(***************************************************************************)
\* submissions that pass the form's checks, per run
MaxSubmissions == 2

\* texts of the url input, as sequences of tokens
UrlInputs ==
    {<<>>, <<" ">>, <<"example.com">>, <<"https://", "example.com">>,
     <<" ", "http://", "example.com", " ">>}

\* String.prototype.trim
RECURSIVE trim(_)
trim(s) ==
    IF s # <<>> /\ Head(s) = " " THEN trim(Tail(s))
    ELSE IF s # <<>> /\ s[Len(s)] = " " THEN trim(SubSeq(s, 1, Len(s) - 1))
    ELSE s

\* String.prototype.startsWith
startsWith(s, prefix) == s # <<>> /\ Head(s) = prefix

\* report: null
NoReport == [url |-> <<>>, strategy |-> "none"]

\* response.data of a 200 of /api/analyze
ReportOf(u, strategy) == [url |-> u, strategy |-> strategy]

AnalysisState(loading, report, err) ==
    [isLoading |-> loading, report |-> report, error |-> err]

\* what a settled POST /api/analyze brings: a report, or an AxiosError with
\* the body's errorDetails and message and its own message, each "" if absent
AxiosErrors ==
    {[errorDetails |-> "Could not resolve or connect to the URL.",
      message |-> "Error during analysis.",
      axiosMessage |-> "Request failed with status code 500"],
     [errorDetails |-> "", message |-> "Method Not Allowed",
      axiosMessage |-> "Request failed with status code 405"],
     [errorDetails |-> "", message |-> "", axiosMessage |-> "Network Error"],
     [errorDetails |-> "", message |-> "", axiosMessage |-> ""]}

Outcomes ==
    {[ok |-> TRUE, err |-> [errorDetails |-> "", message |-> "", axiosMessage |-> ""]]}
    \cup {[ok |-> FALSE, err |-> e] : e \in AxiosErrors}

\* (mutant) the chain of alternatives without its last, constant one
ClientErrorDetailsWithoutFallback(err, strategy) ==
    IF err.errorDetails # "" THEN err.errorDetails
    ELSE IF err.message # "" THEN err.message
    ELSE err.axiosMessage

\* errorDetails || message || axiosError.message || `${Strategy} analysis failed.`
ClientErrorDetails(err, strategy) ==
    IF err.errorDetails # "" THEN err.errorDetails
    ELSE IF err.message # "" THEN err.message
    ELSE IF err.axiosMessage # "" THEN err.axiosMessage
    ELSE IF strategy = "mobile" THEN "Mobile analysis failed."
    ELSE "Desktop analysis failed."

\* (mutant) the setter of both strategies is called
updateStateOfBoth(strategy, st) ==
    /\ mobileAnalysis' = st
    /\ desktopAnalysis' = st

\* updateState = strategy === 'mobile' ? setMobileAnalysis : setDesktopAnalysis
updateState(strategy, st) ==
    /\ mobileAnalysis' = IF strategy = "mobile" THEN st ELSE mobileAnalysis
    /\ desktopAnalysis' = IF strategy = "desktop" THEN st ELSE desktopAnalysis

\* (mutant) the desktop audit is started without awaiting the mobile one
StartedUnawaited(strategy, pc) ==
    \/ strategy = "mobile" /\ pc = "startMobile"
    \/ strategy = "desktop" /\ pc \in {"mobile", "startDesktop"}

\* await analyzeStrategy('mobile', ...); await analyzeStrategy('desktop', ...)
Started(strategy, pc) ==
    \/ strategy = "mobile" /\ pc = "startMobile"
    \/ strategy = "desktop" /\ pc = "startDesktop"

\* where handleSubmit goes on when the audit it awaits has settled
AfterSettle(strategy) == IF strategy = "mobile" THEN "startDesktop" ELSE "idle"

\* submissions of a signed-in user, each of which starts history fetches
MaxSignedInSubmissions == 1

\* the submissions a run of the page goes through
SubmissionsAllowed ==
    IF sessionStatus = "authenticated" THEN MaxSignedInSubmissions ELSE MaxSubmissions

\* the submit button: disabled={isLoading || sessionStatus === 'loading'}
SubmitEnabled ==
    ~(mobileAnalysis.isLoading \/ desktopAnalysis.isLoading \/ sessionStatus = "loading")

\* report.pwaScore of a received report: null or a number
PwaScores == {NullScore, 30}

\* what a settled POST /api/analyze brings to the home page: as Outcomes, a
\* report coming with its pwa score
AnalyzeOutcomes ==
    {[ok |-> o.ok, err |-> o.err, pwaScore |-> IF o.ok THEN pwa ELSE NullScore] :
        o \in Outcomes, pwa \in PwaScores}

\* the user of the page's session
PageUser == "u1"

\* a received report as kept in sessionReports
SessionReport(report, pwa) ==
    [url |-> report.url, strategy |-> report.strategy, pwaScore |-> pwa]

\* the row the server wrote for a report of the signed-in user
PageRow(report, pwa, t) ==
    [userId |-> PageUser, createdAt |-> t, url |-> report.url,
     strategy |-> report.strategy, pwaScore |-> pwa]

\* pwaScores.reduce((acc, score) => acc + score, 0)
RECURSIVE Sum(_)
Sum(scores) == IF scores = <<>> THEN 0 ELSE Head(scores) + Sum(Tail(scores))

\* the effect on [sessionReports]: the rounded mean of the non-null pwa scores
SessionAverage(reports) ==
    LET pwaScores == Keep([i \in 1..Len(reports) |-> reports[i].pwaScore],
                          [i \in 1..Len(reports) |-> reports[i].pwaScore # NullScore])
    IN IF Len(pwaScores) > 0 THEN MathRound(Sum(pwaScores), Len(pwaScores)) ELSE NullScore

\* `session` of the render: an object once the status is authenticated
HasSession == sessionStatus = "authenticated"

NoAnswer == [id |-> 0, rows |-> <<>>, applied |-> 0]

\* fetchDbPastReports(), up to its await of axios.get: with a session the
\* request is sent, without one the list is cleared
fetchDbPastReports(withSession) ==
    IF withSession
    THEN /\ issued' = issued + 1
         /\ historyFetches' =
                historyFetches \cup {[id |-> issued + 1, answered |-> FALSE, rows |-> <<>>]}
         /\ UNCHANGED dbPastReports
    ELSE /\ dbPastReports' = <<>>
         /\ UNCHANGED <<issued, historyFetches>>

\* the effect on [sessionStatus, session], when useSession has resolved
sessionEffect(status) ==
    /\ sessionStatus = "loading"
    /\ sessionStatus' = status
    /\ IF status = "authenticated"
       THEN /\ fetchDbPastReports(TRUE)
            /\ sessionReports' = <<>>
            /\ sessionAveragePwaScore' = NullScore
            /\ UNCHANGED dbAveragePwaScore
       ELSE /\ dbPastReports' = <<>>
            /\ dbAveragePwaScore' = NullScore
            /\ UNCHANGED <<issued, historyFetches, sessionReports, sessionAveragePwaScore>>
    /\ UNCHANGED <<latest, homeVars, checkerVars, shown, reportCard, sectionVars, serverVars>>

\* the server answers a history fetch with the user's rows as they are then
historyAnswered(id) ==
    /\ \E fetch \in historyFetches :
          /\ fetch.id = id
          /\ ~fetch.answered
          /\ LET rows == FindMany(store, PageUser)
             IN /\ historyFetches' =
                       (historyFetches \ {fetch})
                           \cup {[id |-> id, answered |-> TRUE, rows |-> rows]}
                /\ latest' = IF id >= latest.id
                             THEN [latest EXCEPT !.id = id, !.rows = rows]
                             ELSE latest
    /\ UNCHANGED <<sessionStatus, dbPastReports, dbAveragePwaScore, sessionReports,
                   sessionAveragePwaScore, issued, homeVars, checkerVars, shown, reportCard,
                   sectionVars, serverVars>>

\* axios.get rejects: the catch of fetchDbPastReports logs the error
historyFails(id) ==
    /\ \E fetch \in historyFetches :
          /\ fetch.id = id
          /\ ~fetch.answered
          /\ historyFetches' = historyFetches \ {fetch}
    /\ UNCHANGED <<sessionStatus, dbPastReports, dbAveragePwaScore, sessionReports,
                   sessionAveragePwaScore, issued, latest, homeVars, checkerVars, shown,
                   reportCard, sectionVars, serverVars>>

\* fetchDbPastReports, from the resolving of axios.get: setDbPastReports(res.data)
historyArrives(id) ==
    /\ \E fetch \in historyFetches :
          /\ fetch.id = id
          /\ fetch.answered
          /\ dbPastReports' = fetch.rows
          /\ historyFetches' = historyFetches \ {fetch}
          /\ latest' = [latest EXCEPT !.applied = id]
    /\ UNCHANGED <<sessionStatus, dbAveragePwaScore, sessionReports, sessionAveragePwaScore,
                   issued, homeVars, checkerVars, shown, reportCard, sectionVars,
                   serverVars>>

\* pwaAverageToShow
pwaAverageToShow == IF HasSession THEN dbAveragePwaScore ELSE sessionAveragePwaScore

\* showPwaAverageSection
showPwaAverageSection ==
    /\ pwaAverageToShow # NullScore
    /\ ~(mobileAnalysis.isLoading \/ desktopAnalysis.isLoading)
    /\ IF HasSession THEN Len(dbPastReports) > 0 ELSE Len(sessionReports) > 0

\* the history part of the page as first rendered to a visitor without session
PastIdle ==
    /\ sessionStatus = "unauthenticated"
    /\ dbPastReports = <<>>
    /\ dbAveragePwaScore = NullScore
    /\ sessionReports = <<>>
    /\ sessionAveragePwaScore = NullScore
    /\ historyFetches = {}
    /\ issued = 0
    /\ latest = NoAnswer

\* onChange of the url input
setUrl(value) ==
    /\ url' = value
    /\ formError' = ""
    /\ UNCHANGED <<mobileAnalysis, desktopAnalysis, activeTab, currentUrl, hPc, inFlight,
                   hTrace, shown, reportCard, sectionVars, serverVars, checkerVars, pastVars>>

\* handleSubmit, up to its first call of analyzeStrategy
handleSubmit ==
    /\ hPc = "idle"
    /\ SubmitEnabled
    /\ LET trimmed == trim(url)
       IN IF trimmed = <<>>
          THEN /\ formError' = "Please enter a URL."
               /\ UNCHANGED <<mobileAnalysis, desktopAnalysis, activeTab, currentUrl, hPc>>
          ELSE IF ~startsWith(trimmed, "http://") /\ ~startsWith(trimmed, "https://")
          THEN /\ formError' = "URL must start with http:// or https://"
               /\ UNCHANGED <<mobileAnalysis, desktopAnalysis, activeTab, currentUrl, hPc>>
          ELSE /\ Len(hTrace) < 4 * SubmissionsAllowed
               /\ formError' = ""
               /\ mobileAnalysis' = AnalysisState(FALSE, NoReport, "")
               /\ desktopAnalysis' = AnalysisState(FALSE, NoReport, "")
               /\ activeTab' = "mobile"
               /\ currentUrl' = trimmed
               /\ hPc' = "startMobile"
    /\ UNCHANGED <<url, inFlight, hTrace, shown, reportCard, sectionVars, serverVars, checkerVars, pastVars>>

\* analyzeStrategy, up to its await of axios.post
analyzeStrategyStart(strategy) ==
    /\ Started(strategy, hPc)
    /\ updateState(strategy, AnalysisState(TRUE, NoReport, ""))
    /\ inFlight' = inFlight \cup {ReportOf(currentUrl, strategy)}
    /\ hTrace' = Append(hTrace, [ev |-> "post", strategy |-> strategy, url |-> currentUrl])
    /\ hPc' = strategy
    /\ UNCHANGED <<url, formError, activeTab, currentUrl, shown, reportCard, sectionVars, serverVars, checkerVars, pastVars>>

\* analyzeStrategy, from the settling of axios.post to its return.  The row
\* the server wrote for a signed-in user (or failed to write) is in the store
\* by the time the response is here.
analyzeStrategySettles(strategy, outcome) ==
    /\ \E request \in inFlight :
          /\ request.strategy = strategy
          /\ updateState(strategy,
                 IF outcome.ok THEN AnalysisState(FALSE, request, "")
                 ELSE AnalysisState(FALSE, NoReport, ClientErrorDetails(outcome.err, strategy)))
          /\ inFlight' = inFlight \ {request}
          /\ hTrace' = Append(hTrace, [ev |-> "settle", strategy |-> strategy,
                                       url |-> request.url])
          /\ IF outcome.ok
             THEN /\ sessionReports' =
                         Append(sessionReports, SessionReport(request, outcome.pwaScore))
                  /\ sessionAveragePwaScore' = SessionAverage(sessionReports')
                  /\ IF HasSession
                     THEN /\ fetchDbPastReports(TRUE)
                          /\ \E saved \in BOOLEAN :
                                 IF saved
                                 THEN /\ store' = create(store,
                                                       PageRow(request, outcome.pwaScore, now))
                                      /\ now' = now + 1
                                 ELSE UNCHANGED storeVars
                     ELSE UNCHANGED <<dbPastReports, issued, historyFetches, storeVars>>
             ELSE UNCHANGED <<sessionReports, sessionAveragePwaScore, dbPastReports, issued,
                              historyFetches, storeVars>>
    /\ hPc' = AfterSettle(strategy)
    /\ UNCHANGED <<url, formError, activeTab, currentUrl, sessionStatus, dbAveragePwaScore,
                   latest, shown, reportCard, sectionVars, analyzeVars, reportsVars, scanVars,
                   checkerVars>>

\* a click on a tab, shown once there is anything to show
setActiveTab(tab) ==
    /\ \/ mobileAnalysis.isLoading \/ desktopAnalysis.isLoading
       \/ mobileAnalysis.report # NoReport \/ desktopAnalysis.report # NoReport
       \/ mobileAnalysis.error # "" \/ desktopAnalysis.error # ""
    /\ activeTab' = tab
    /\ UNCHANGED <<url, formError, mobileAnalysis, desktopAnalysis, currentUrl, hPc, inFlight,
                   hTrace, shown, reportCard, sectionVars, serverVars, checkerVars, pastVars>>

\* the page as first rendered
HomeIdle ==
    /\ url = <<>>
    /\ formError = ""
    /\ mobileAnalysis = AnalysisState(FALSE, NoReport, "")
    /\ desktopAnalysis = AnalysisState(FALSE, NoReport, "")
    /\ activeTab = "mobile"
    /\ currentUrl = <<>>
    /\ hPc = "idle"
    /\ inFlight = {}
    /\ hTrace = <<>>


(***************************************************************************)
(* The client: SecurityCheckerPage, its form and the scan it requests.     *)
(***************************************************************************)
\* scanReport: null
NoScanReport == [url |-> <<>>]

\* (mutant) the url is posted as typed
fullUrlAsTyped(trimmed) == trimmed

\* fullUrl: the trimmed url, with https:// before it if it has no scheme
fullUrl(trimmed) ==
    IF ~startsWith(trimmed, "http://") /\ ~startsWith(trimmed, "https://")
    THEN <<"https://">> \o trimmed
    ELSE trimmed

\* onChange of the url input; the form is not rendered while a scan runs
CheckerSetUrl(value) ==
    /\ ~isLoading
    /\ checkerUrl' = value
    /\ error' = ""
    /\ scanReport' = NoScanReport
    /\ UNCHANGED <<isLoading, scanInFlight, homeVars, pastVars, shown, reportCard, sectionVars, serverVars>>

\* SecurityCheckerPage.handleSubmit, up to its await of axios.post
CheckerHandleSubmit ==
    /\ ~isLoading
    /\ IF trim(checkerUrl) = <<>>
       THEN /\ error' = "Please enter a website URL to scan."
            /\ UNCHANGED <<checkerUrl, isLoading, scanReport, scanInFlight>>
       ELSE /\ checkerUrl' = fullUrl(trim(checkerUrl))
            /\ isLoading' = TRUE
            /\ error' = ""
            /\ scanReport' = NoScanReport
            /\ scanInFlight' = scanInFlight \cup {[url |-> fullUrl(trim(checkerUrl))]}
    /\ UNCHANGED <<homeVars, pastVars, shown, reportCard, sectionVars, serverVars>>

\* SecurityCheckerPage.handleSubmit, from the settling of axios.post on
CheckerScanSettles(outcome) ==
    /\ \E request \in scanInFlight :
          /\ scanInFlight' = scanInFlight \ {request}
          /\ IF outcome.ok
             THEN /\ scanReport' = request
                  /\ UNCHANGED error
             ELSE /\ error' = (IF outcome.err.errorDetails # "" THEN outcome.err.errorDetails
                               ELSE IF outcome.err.message # "" THEN outcome.err.message
                               ELSE IF outcome.err.axiosMessage # "" THEN outcome.err.axiosMessage
                               ELSE "Failed to perform security scan.")
                  /\ UNCHANGED scanReport
    /\ isLoading' = FALSE
    /\ UNCHANGED <<checkerUrl, homeVars, pastVars, shown, reportCard, sectionVars, serverVars>>

\* the button under a report: Scan Another Site
CheckerScanAnother ==
    /\ scanReport # NoScanReport
    /\ ~isLoading
    /\ scanReport' = NoScanReport
    /\ checkerUrl' = <<>>
    /\ error' = ""
    /\ UNCHANGED <<isLoading, scanInFlight, homeVars, pastVars, shown, reportCard, sectionVars, serverVars>>

\* the page as first rendered
CheckerIdle ==
    /\ checkerUrl = <<>>
    /\ isLoading = FALSE
    /\ scanReport = NoScanReport
    /\ error = ""
    /\ scanInFlight = {}


\* no report on the page
ClientIdle ==
    /\ shown = NoShown
    /\ reportCard = NoCard
    /\ category = [id |-> "seo", hasAuditRefs |-> FALSE, score |-> NullScore,
                   auditRefs |-> <<>>]
    /\ allAudits = <<>>
    /\ showPassed = FALSE
    /\ showManual = FALSE
    /\ section = NoSection
    /\ HomeIdle
    /\ PastIdle
    /\ CheckerIdle

(***************************************************************************)
(* POST /api/security-scan.                                                *)
(***************************************************************************)
\* most items of the first and of the second list of a drawn checklist
MaxMalwareItems == 3
MaxBlacklistItems == 1

\* SecurityCheckItem['status']
Statuses ==
    {"pass", "fail", "warn", "info", "clean", "infected", "not_blacklisted", "blacklisted"}

\* req.body.url, as a sequence of tokens; <<>> when the body has no url
ScanUrls ==
    {<<>>, <<"example.com">>,
     <<"https://", "example.com">>, <<"http://", "example.com">>,
     <<"https://", "malwareexample.com">>, <<"http://", "malwareexample.com">>,
     <<"https://", "example.com", "/", "malwareexample.com">>,
     <<"ftp://", "malwareexample.com">>, <<"ftp://", "example.com">>,
     <<"https://", "warningexample.com">>,
     <<"http://", "example.com", "/", "warningexample.com">>,
     <<"http://", "warningexample.com", "/", "malwareexample.com">>}

ScanBodies == {[isNull |-> TRUE, url |-> <<>>]} \cup {[isNull |-> FALSE, url |-> u] : u \in ScanUrls}

\* scanSchema: url is a string that parses as a URL, of whatever scheme
scanSchema(body) ==
    \E scheme \in {"https://", "http://", "ftp://"} : startsWith(body.url, scheme)

\* String.prototype.includes
includes(s, part) == \E i \in 1..Len(s) : s[i] = part

\* createCheckItem(identifier, status, ...)
createCheckItem(identifier, status) == [check |-> identifier, status |-> status]

\* 1. HTTPS check
HttpsCheck(targetUrl) ==
    IF startsWith(targetUrl, "https://") THEN createCheckItem("HTTPS Usage", "pass")
    ELSE createCheckItem("HTTPS Usage", "fail")

\* 2. basic header analysis of a fetched page
HeaderChecks(hasCsp) ==
    <<createCheckItem("Website Reachable", "pass"),
      createCheckItem("Content-Security-Policy (CSP)", IF hasCsp THEN "pass" ELSE "warn")>>

\* (mutant) the warning example is looked for first
MockChecksWarningFirst(targetUrl) ==
    IF includes(targetUrl, "warningexample.com")
    THEN [malware |-> <<createCheckItem("Outdated jQuery Version", "warn")>>,
          blacklist |-> <<>>]
    ELSE IF includes(targetUrl, "malwareexample.com")
    THEN [malware |-> <<createCheckItem("JS.Trojan.Fake Found", "infected")>>,
          blacklist |-> <<createCheckItem("ExampleBadGuysList", "blacklisted")>>]
    ELSE [malware |-> <<createCheckItem("Generic Malware Scan", "clean")>>,
          blacklist |-> <<createCheckItem("Google Safe Browsing", "not_blacklisted")>>]

\* the simulated malware and blacklist checks
MockChecks(targetUrl) ==
    IF includes(targetUrl, "malwareexample.com")
    THEN [malware |-> <<createCheckItem("JS.Trojan.Fake Found", "infected")>>,
          blacklist |-> <<createCheckItem("ExampleBadGuysList", "blacklisted")>>]
    ELSE IF includes(targetUrl, "warningexample.com")
    THEN [malware |-> <<createCheckItem("Outdated jQuery Version", "warn")>>,
          blacklist |-> <<>>]
    ELSE [malware |-> <<createCheckItem("Generic Malware Scan", "clean")>>,
          blacklist |-> <<createCheckItem("Google Safe Browsing", "not_blacklisted")>>]

\* allChecks.filter(r => ...).length
CountOf(items, statuses) == Cardinality({i \in 1..Len(items) : items[i].status \in statuses})

\* (mutant) three warnings are not yet a medium risk
RiskOfFourWarnings(allChecks) ==
    LET criticalFailures == CountOf(allChecks, {"infected", "blacklisted"})
        highRiskFailures == CountOf(allChecks, {"fail"})
        warnings == CountOf(allChecks, {"warn"})
    IN IF criticalFailures > 0 THEN [risk |-> "Critical", severity |-> "danger"]
       ELSE IF highRiskFailures >= 2 THEN [risk |-> "High", severity |-> "danger"]
       ELSE IF highRiskFailures = 1 \/ warnings > 3 THEN [risk |-> "Medium", severity |-> "warning"]
       ELSE IF warnings > 0 THEN [risk |-> "Low", severity |-> "warning"]
       ELSE [risk |-> "Minimal", severity |-> "good"]

\* risk and overall status determination
RiskOf(allChecks) ==
    LET criticalFailures == CountOf(allChecks, {"infected", "blacklisted"})
        highRiskFailures == CountOf(allChecks, {"fail"})
        warnings == CountOf(allChecks, {"warn"})
    IN IF criticalFailures > 0 THEN [risk |-> "Critical", severity |-> "danger"]
       ELSE IF highRiskFailures >= 2 THEN [risk |-> "High", severity |-> "danger"]
       ELSE IF highRiskFailures = 1 \/ warnings >= 3 THEN [risk |-> "Medium", severity |-> "warning"]
       ELSE IF warnings > 0 THEN [risk |-> "Low", severity |-> "warning"]
       ELSE [risk |-> "Minimal", severity |-> "good"]

\* currentMalwareSummary
MalwareSummary(items) ==
    IF CountOf(items, {"infected"}) > 0 THEN [text |-> "Malware Detected!", status |-> "infected"]
    ELSE IF CountOf(items, {"fail", "warn"}) > 0
    THEN [text |-> "Security Issues/Warnings", status |-> "warning"]
    ELSE [text |-> "No Malware Found", status |-> "clean"]

\* currentBlacklistSummary
BlacklistSummary(items) ==
    IF CountOf(items, {"blacklisted"}) > 0 THEN [text |-> "Site Blacklisted", status |-> "blacklisted"]
    ELSE [text |-> "Site Not Blacklisted", status |-> "not_blacklisted"]

NoPayload ==
    [url |-> <<>>, securityRisk |-> "none", overallStatusSeverity |-> "none",
     malwareSummary |-> [text |-> "", status |-> "info"],
     blacklistSummary |-> [text |-> "", status |-> "info"],
     malwareAndSecurityDetails |-> <<>>, blacklistStatusDetails |-> <<>>]

\* responsePayload
Payload(targetUrl, malware, blacklist) ==
    [url |-> targetUrl,
     securityRisk |-> RiskOf(malware \o blacklist).risk,
     overallStatusSeverity |-> RiskOf(malware \o blacklist).severity,
     malwareSummary |-> MalwareSummary(malware),
     blacklistSummary |-> BlacklistSummary(blacklist),
     malwareAndSecurityDetails |-> malware,
     blacklistStatusDetails |-> blacklist]

NoScanRes == [status |-> 0, message |-> "", payload |-> NoPayload]

\* the request arrives; the handler runs up to its await of axios.get
ScanReceive(method, body) ==
    /\ sPc \in {"idle", "done", "rejected"}
    /\ sReq' = [method |-> method, body |-> body]
    /\ responsePayload' = NoPayload
    /\ IF method # "POST"
       THEN /\ sRes' = [status |-> 405, message |-> "Method Not Allowed", payload |-> NoPayload]
            /\ sPc' = "done"
            /\ malwareAndSecurityItems' = <<>>
       ELSE IF body.isNull
       THEN \* const { url } = req.body throws outside the try statement
            /\ sRes' = NoScanRes
            /\ sPc' = "rejected"
            /\ malwareAndSecurityItems' = <<>>
       ELSE IF ~scanSchema(body)
       THEN /\ sRes' = [status |-> 400, message |-> "Validation failed", payload |-> NoPayload]
            /\ sPc' = "done"
            /\ malwareAndSecurityItems' = <<>>
       ELSE /\ sRes' = NoScanRes
            /\ sPc' = "fetch"
            /\ malwareAndSecurityItems' = <<HttpsCheck(body.url)>>
    /\ blacklistItems' = <<>>
    /\ UNCHANGED <<analyzeVars, storeVars, reportsVars, clientVars>>

\* axios.get resolves; the header checks and the simulated checks are pushed
ScanFetched(hasCsp) ==
    /\ sPc = "fetch"
    /\ malwareAndSecurityItems' =
           malwareAndSecurityItems \o HeaderChecks(hasCsp) \o MockChecks(sReq.body.url).malware
    /\ blacklistItems' = blacklistItems \o MockChecks(sReq.body.url).blacklist
    /\ sPc' = "checked"
    /\ UNCHANGED <<sReq, responsePayload, sRes, analyzeVars, storeVars, reportsVars, clientVars>>

\* (mutant) a failed fetch is pushed as a warning
ScanFetchFailsAsWarning ==
    /\ sPc = "fetch"
    /\ malwareAndSecurityItems' =
           malwareAndSecurityItems \o <<createCheckItem("Website Fetch & Headers", "warn")>>
                                   \o MockChecks(sReq.body.url).malware
    /\ blacklistItems' = blacklistItems \o MockChecks(sReq.body.url).blacklist
    /\ sPc' = "checked"
    /\ UNCHANGED <<sReq, responsePayload, sRes, analyzeVars, storeVars, reportsVars, clientVars>>

\* axios.get rejects; the failure and the simulated checks are pushed
ScanFetchFails ==
    /\ sPc = "fetch"
    /\ malwareAndSecurityItems' =
           malwareAndSecurityItems \o <<createCheckItem("Website Fetch & Headers", "fail")>>
                                   \o MockChecks(sReq.body.url).malware
    /\ blacklistItems' = blacklistItems \o MockChecks(sReq.body.url).blacklist
    /\ sPc' = "checked"
    /\ UNCHANGED <<sReq, responsePayload, sRes, analyzeVars, storeVars, reportsVars, clientVars>>

\* the risk, the summaries and the payload, up to the await of the delay
ScanDetermine ==
    /\ sPc = "checked"
    /\ responsePayload' = Payload(sReq.body.url, malwareAndSecurityItems, blacklistItems)
    /\ sPc' = "delay"
    /\ UNCHANGED <<sReq, malwareAndSecurityItems, blacklistItems, sRes, analyzeVars, storeVars,
                   reportsVars, clientVars>>

\* the delay is over: res.status(200).json(responsePayload)
ScanRespond ==
    /\ sPc = "delay"
    /\ sRes' = [status |-> 200, message |-> "", payload |-> responsePayload]
    /\ sPc' = "done"
    /\ UNCHANGED <<sReq, malwareAndSecurityItems, blacklistItems, responsePayload, analyzeVars,
                   storeVars, reportsVars, clientVars>>

ScanIdle ==
    /\ sPc = "idle"
    /\ sReq = [method |-> "GET", body |-> [isNull |-> TRUE, url |-> <<>>]]
    /\ malwareAndSecurityItems = <<>>
    /\ blacklistItems = <<>>
    /\ responsePayload = NoPayload
    /\ sRes = NoScanRes


(***************************************************************************)
(* The server: both handlers over one store.                               *)
(***************************************************************************)
\* the store after PrefillLen earlier analyses, most of them by u1
Prefilled ==
    [i \in 1..PrefillLen |->
        ReportRow(ResponseData([url |-> "wellformed", strategy |-> "mobile"],
                               CHOOSE l \in LhrSamples : l.categories["performance"] = 0),
                  IF i % 7 = 0 THEN "u2" ELSE "u1", i)]

AnalyzeIdle ==
    /\ aPc = "idle"
    /\ aReq = [method |-> "GET", body |-> NullBody]
    /\ userId = ""
    /\ browser = "null"
    /\ process = "none"
    /\ responseData = NoData
    /\ aRes = NoRes
    /\ aTrace = <<>>
    /\ failure = NoFailure

ReportsIdle ==
    /\ rPc = "idle"
    /\ rReq = [method |-> "GET"]
    /\ rSession = NoSession
    /\ rUserId = ""
    /\ rRes = NoRows
    /\ rTrace = <<>>

Init ==
    /\ AnalyzeIdle
    /\ ReportsIdle
    /\ ScanIdle
    /\ ClientIdle
    /\ budget = MaxRequests
    /\ store = <<>>
    /\ now = 0

Next ==
    \/ \E method \in Methods, body \in Bodies : AnalyzeReceive(method, body)
    \/ \E session \in Sessions : AnalyzeSession(session)
    \/ \E e \in LaunchErrors : AnalyzeLaunchFails(e)
    \/ AnalyzeLaunched
    \/ AnalyzeLaunchedNoPort
    \/ AnalyzeLaunchedBadEndpoint
    \/ AnalyzePortClosed
    \/ AnalyzePortCloseFails
    \/ \E e \in EngineErrors : AnalyzeEngineThrows(e)
    \/ AnalyzeEngineNoReport
    \/ \E lhr \in LhrSamples : AnalyzeEngineReturns(lhr)
    \/ AnalyzeCreated
    \/ AnalyzeCreateFails
    \/ AnalyzeClosed
    \/ AnalyzeCloseFails
    \/ \E method \in Methods : ReportsReceive(method)
    \/ \E session \in Sessions : ReportsSession(session)
    \/ ReportsFound
    \/ ReportsQueryFails

Spec == Init /\ [][Next]_vars

\* The server with a history: the store already holds PrefillLen rows.
InitHistory ==
    /\ AnalyzeIdle
    /\ ReportsIdle
    /\ ScanIdle
    /\ ClientIdle
    /\ budget = MaxHistoryRequests
    /\ store = Prefilled
    /\ now = PrefillLen

SpecHistory == InitHistory /\ [][Next]_vars

(***************************************************************************)
(* Normalisation end to end: one analyze request whose engine result       *)
(* ranges over every raw score of one category, and the client deriving    *)
(* the numbers it shows from the response.                                 *)
(***************************************************************************)
RawStates == {MissingCat, NullScore} \cup 0..Scale

\* a report in which category k has raw state v and the others are absent
LhrWith(k, v) == [categories |-> [c \in Categories |-> IF c = k THEN v ELSE MissingCat]]

NormBodies ==
    {NullBody,
     [isNull |-> FALSE, url |-> "malformed", strategy |-> "mobile"],
     [isNull |-> FALSE, url |-> "wellformed", strategy |-> "mobile"]}

NormSessions == {NoSession, [present |-> TRUE, hasUser |-> TRUE, id |-> "u1"]}

\* lighthouse() resolves with any report of the range
AnalyzeEngineReturnsInRange ==
    /\ aPc = "engine"
    /\ \E k \in Categories, v \in RawStates : AnalyzeEngineReturns(LhrWith(k, v))

InitNorm ==
    /\ AnalyzeIdle
    /\ ReportsIdle
    /\ ScanIdle
    /\ ClientIdle
    /\ budget = 1
    /\ store = <<>>
    /\ now = 0

NextNorm ==
    \/ \E method \in Methods, body \in NormBodies : AnalyzeReceive(method, body)
    \/ \E session \in NormSessions : AnalyzeSession(session)
    \/ \E e \in LaunchErrors : AnalyzeLaunchFails(e)
    \/ AnalyzeLaunched
    \/ AnalyzeLaunchedNoPort
    \/ AnalyzeLaunchedBadEndpoint
    \/ AnalyzePortClosed
    \/ AnalyzePortCloseFails
    \/ \E e \in EngineErrors : AnalyzeEngineThrows(e)
    \/ AnalyzeEngineNoReport
    \/ AnalyzeEngineReturnsInRange
    \/ AnalyzeCreated
    \/ AnalyzeCreateFails
    \/ AnalyzeClosed
    \/ AnalyzeCloseFails
    \/ \E withTop \in BOOLEAN : ClientScores(withTop)

SpecNorm == InitNorm /\ [][NextNorm]_vars

(***************************************************************************)
(* Failures of an audit: one request at a time, over urls whose text does  *)
(* or does not contain one of the markers the outer catch looks for.       *)
(***************************************************************************)
ErrBodies ==
    {NullBody, [isNull |-> FALSE, url |-> "malformed", strategy |-> "mobile"]} \cup
    {[isNull |-> FALSE, url |-> u, strategy |-> s] :
        u \in WellformedUrls, s \in {"mobile", "desktop"}}

InitErrors ==
    /\ AnalyzeIdle
    /\ ReportsIdle
    /\ ScanIdle
    /\ ClientIdle
    /\ budget = 1
    /\ store = <<>>
    /\ now = 0

NextErrors ==
    \/ \E method \in Methods, body \in ErrBodies : AnalyzeReceive(method, body)
    \/ \E session \in NormSessions : AnalyzeSession(session)
    \/ \E e \in LaunchErrors : AnalyzeLaunchFails(e)
    \/ AnalyzeLaunched
    \/ AnalyzeLaunchedNoPort
    \/ AnalyzeLaunchedBadEndpoint
    \/ AnalyzePortClosed
    \/ AnalyzePortCloseFails
    \/ \E e \in EngineErrors : AnalyzeEngineThrows(e)
    \/ AnalyzeEngineNoReport
    \/ \E lhr \in LhrSamples : AnalyzeEngineReturns(lhr)
    \/ AnalyzeCreated
    \/ AnalyzeCreateFails
    \/ AnalyzeClosed
    \/ AnalyzeCloseFails

SpecErrors == InitErrors /\ [][NextErrors]_vars

(***************************************************************************)
(* Report cards: one analyze request, history fetches, and the cards the   *)
(* page renders of the response and of the rows of the history.            *)
(***************************************************************************)
CardLhrs == LhrSamples \cup {LhrWith("seo", Scale)}

InitCards ==
    /\ AnalyzeIdle
    /\ ReportsIdle
    /\ ScanIdle
    /\ ClientIdle
    /\ budget = 1
    /\ store = <<>>
    /\ now = 0

NextCards ==
    \/ \E method \in Methods, body \in NormBodies : AnalyzeReceive(method, body)
    \/ \E session \in NormSessions : AnalyzeSession(session)
    \/ \E e \in LaunchErrors : AnalyzeLaunchFails(e)
    \/ AnalyzeLaunched
    \/ AnalyzeLaunchedNoPort
    \/ AnalyzeLaunchedBadEndpoint
    \/ AnalyzePortClosed
    \/ AnalyzePortCloseFails
    \/ \E e \in EngineErrors : AnalyzeEngineThrows(e)
    \/ AnalyzeEngineNoReport
    \/ \E lhr \in CardLhrs : AnalyzeEngineReturns(lhr)
    \/ AnalyzeCreated
    \/ AnalyzeCreateFails
    \/ AnalyzeClosed
    \/ AnalyzeCloseFails
    \/ \E method \in Methods : ReportsReceive(method)
    \/ \E session \in NormSessions : ReportsSession(session)
    \/ ReportsFound
    \/ ReportsQueryFails
    \/ ClientCurrentCard
    \/ ClientPastCard

SpecCards == InitCards /\ [][NextCards]_vars

(***************************************************************************)
(* Rendering: one CategorySection over every category object and audit     *)
(* map within the bounds, and its two toggles.                             *)
(***************************************************************************)
InitRender ==
    /\ AnalyzeIdle
    /\ ReportsIdle
    /\ ScanIdle
    /\ budget = 0
    /\ store = <<>>
    /\ now = 0
    /\ shown = NoShown
    /\ reportCard = NoCard
    /\ category \in CategoryProps
    /\ allAudits \in AuditMaps(Len(category.auditRefs))
    /\ showPassed = FALSE
    /\ showManual = FALSE
    /\ section = CategorySection(category, allAudits, showPassed, showManual)
    /\ HomeIdle
    /\ PastIdle
    /\ CheckerIdle

NextRender ==
    \/ ToggleManual
    \/ TogglePassed

SpecRender == InitRender /\ [][NextRender]_vars

(***************************************************************************)
(* The home page: submissions of the form and the audits they start, the   *)
(* server's answers being any of Outcomes.                                 *)
(***************************************************************************)
InitHome ==
    /\ AnalyzeIdle
    /\ ReportsIdle
    /\ ScanIdle
    /\ ClientIdle
    /\ budget = 0
    /\ store = <<>>
    /\ now = 0

\* the audits of these runs bring reports without a pwa score
HomeOutcomes == {o \in AnalyzeOutcomes : o.pwaScore = NullScore}

NextHome ==
    \/ \E value \in UrlInputs : setUrl(value)
    \/ handleSubmit
    \/ \E strategy \in {"mobile", "desktop"} : analyzeStrategyStart(strategy)
    \/ \E strategy \in {"mobile", "desktop"}, outcome \in HomeOutcomes :
           analyzeStrategySettles(strategy, outcome)
    \/ \E tab \in {"mobile", "desktop"} : setActiveTab(tab)
    \/ \E value \in UrlInputs : CheckerSetUrl(value)
    \/ CheckerHandleSubmit
    \/ \E outcome \in Outcomes : CheckerScanSettles(outcome)
    \/ CheckerScanAnother

SpecHome == InitHome /\ [][NextHome]_vars

(***************************************************************************)
(* The home page and the history of a signed-in user: the session          *)
(* resolves, submissions are made, and the history fetches they start are  *)
(* answered and arrive in any order.                                       *)
(***************************************************************************)
PastUrlInputs == {<<>>, <<"https://", "example.com">>}

InitPast ==
    /\ AnalyzeIdle
    /\ ReportsIdle
    /\ ScanIdle
    /\ budget = 0
    /\ store = <<>>
    /\ now = 0
    /\ shown = NoShown
    /\ reportCard = NoCard
    /\ category = [id |-> "seo", hasAuditRefs |-> FALSE, score |-> NullScore,
                   auditRefs |-> <<>>]
    /\ allAudits = <<>>
    /\ showPassed = FALSE
    /\ showManual = FALSE
    /\ section = NoSection
    /\ HomeIdle
    /\ CheckerIdle
    /\ sessionStatus = "loading"
    /\ dbPastReports = <<>>
    /\ dbAveragePwaScore = NullScore
    /\ sessionReports = <<>>
    /\ sessionAveragePwaScore = NullScore
    /\ historyFetches = {}
    /\ issued = 0
    /\ latest = NoAnswer

NextPast ==
    \/ \E status \in {"authenticated", "unauthenticated"} : sessionEffect(status)
    \/ \E value \in PastUrlInputs : setUrl(value)
    \/ handleSubmit
    \/ \E strategy \in {"mobile", "desktop"} : analyzeStrategyStart(strategy)
    \/ \E strategy \in {"mobile", "desktop"}, outcome \in AnalyzeOutcomes :
           analyzeStrategySettles(strategy, outcome)
    \/ \E id \in 1..issued : historyAnswered(id)
    \/ \E id \in 1..issued : historyFails(id)
    \/ \E id \in 1..issued : historyArrives(id)

SpecPast == InitPast /\ [][NextPast]_vars


(***************************************************************************)
(* The security scan: the handler over every request, and the risk         *)
(* determination over every checklist within the bounds.                   *)
(***************************************************************************)
InitScan ==
    /\ AnalyzeIdle
    /\ ReportsIdle
    /\ ScanIdle
    /\ ClientIdle
    /\ budget = 0
    /\ store = <<>>
    /\ now = 0

NextScan ==
    \/ \E method \in Methods, body \in ScanBodies : ScanReceive(method, body)
    \/ \E hasCsp \in BOOLEAN : ScanFetched(hasCsp)
    \/ ScanFetchFails
    \/ ScanDetermine
    \/ ScanRespond

SpecScan == InitScan /\ [][NextScan]_vars

\* lists of at most n check items, of any status
Checklists(n) ==
    UNION {[1..k -> {createCheckItem("check", st) : st \in Statuses}] : k \in 0..n}

\* the handler with its two lists filled, before the risk is determined
InitRisk ==
    /\ AnalyzeIdle
    /\ ReportsIdle
    /\ ClientIdle
    /\ budget = 0
    /\ store = <<>>
    /\ now = 0
    /\ sPc = "checked"
    /\ sReq = [method |-> "POST",
               body |-> [isNull |-> FALSE, url |-> <<"https://", "example.com">>]]
    /\ responsePayload = NoPayload
    /\ sRes = NoScanRes
    /\ malwareAndSecurityItems \in Checklists(MaxMalwareItems)
    /\ blacklistItems \in Checklists(MaxBlacklistItems)

NextRisk ==
    \/ ScanDetermine
    \/ ScanRespond

SpecRisk == InitRisk /\ [][NextRisk]_vars


(***************************************************************************)
(* Properties of the handlers.                                             *)
(***************************************************************************)
Occurrences(tr, ev) == Cardinality({i \in 1..Len(tr) : tr[i] = ev})

\* the handler's promise has settled
Returned == aPc \in {"done", "rejected"}

\* C1: on every exit path reached after the browser was launched, close() has
\* been invoked by the time the handler returns, and a response once sent is
\* not changed by anything that follows in the same request, an error of
\* close() included.
C1_BrowserClosedOnEveryExit ==
    [][/\ (aPc' \in {"done", "rejected"} /\ browser' = "launched")
              => Occurrences(aTrace', "close") >= 1
       /\ (aRes.status # 0 /\ budget' = budget) => aRes' = aRes]_vars

\* C1 witness: the handler has returned 200 and the final close() rejected
C1_Witness ==
    /\ aPc = "done"
    /\ browser = "launched"
    /\ process = "running"
    /\ aRes.status = 200
    /\ Occurrences(aTrace, "close") = 1

C3_RowOnlyForAuthenticatedReport ==
    [][/\ store' # store =>
              /\ Len(store') = Len(store) + 1
              /\ SubSeq(store', 1, Len(store)) = store
              /\ store'[Len(store')].userId = userId
              /\ userId \in Users
              /\ responseData.full \in LhrSamples
              /\ Occurrences(aTrace', "create") = 1
              /\ aRes'.status = 200
       /\ Occurrences(aTrace', "create") <= 1
       /\ (aRes'.status \in {400, 405, 500} \/ (Returned' /\ userId' = ""))
              => Occurrences(aTrace', "create") = 0]_vars

\* C3 witness: a signed-in user's report has been stored and answered 200
C3_Witness ==
    /\ aRes.status = 200
    /\ Occurrences(aTrace, "create") = 1
    /\ store # <<>>
    /\ store[Len(store)].userId = userId

\* C4: once the create call has been made, the response is 200 with the
\* report built from the engine's result and nothing of an error in it,
\* whether the write succeeded or failed.
C4_PersistFailureStill200 ==
    (aPc \in {"closing", "done"} /\ Occurrences(aTrace, "create") = 1) =>
        /\ aRes.status = 200
        /\ aRes.errorDetails.kind = "none"
        /\ aRes.message = ""
        /\ aRes.data.full \in LhrSamples
        /\ aRes.data = ResponseData(aReq.body, aRes.data.full)

\* C4 witness: the first write of the run failed and the caller has its 200
C4_Witness ==
    /\ aPc = "done"
    /\ Occurrences(aTrace, "create") = 1
    /\ store = <<>>
    /\ aRes.status = 200
    /\ userId \in Users

\* C5: a 200 of /api/reports holds at most 20 rows, all of the caller, newest
\* first.
C5_OwnRowsAtMostTwentyNewestFirst ==
    rRes.status = 200 =>
        /\ Len(rRes.rows) <= 20
        /\ \A i \in 1..Len(rRes.rows) : rRes.rows[i].userId = rSession.id
        /\ \A i \in 1..Len(rRes.rows), j \in 1..Len(rRes.rows) :
               i < j => rRes.rows[i].createdAt >= rRes.rows[j].createdAt

\* C5 witness: a caller with more than 20 rows, in a store that also holds
\* another user's rows, got 20
C5_Witness ==
    /\ rRes.status = 200
    /\ Len(rRes.rows) = 20
    /\ Cardinality({i \in 1..Len(store) : store[i].userId = rSession.id}) > 20
    /\ \E i \in 1..Len(store) : store[i].userId # rSession.id

\* C6: a GET without a session, without a user or without a user id is
\* answered 401 with no rows and without a query.
C6_UnauthenticatedReports401 ==
    (/\ rPc = "done"
     /\ rReq.method = "GET"
     /\ (~rSession.present \/ ~rSession.hasUser \/ rSession.id \notin Users)) =>
        /\ rRes.status = 401
        /\ rRes.rows = <<>>
        /\ Occurrences(rTrace, "findMany") = 0

\* C6 witness: a session whose user has no id was answered
C6_Witness ==
    /\ rPc = "done"
    /\ rReq.method = "GET"
    /\ rSession.present
    /\ rSession.hasUser
    /\ rSession.id = ""
    /\ rRes.status = 401

\* C7 as claimed: when the handler has returned, a non-POST request has 405,
\* a POST whose body fails validation has 400, a browser or engine failure
\* has 500, 200 goes with a report of the engine, and there is no other
\* status.
C7_StatusCodes ==
    Returned =>
        /\ aReq.method # "POST" => aRes.status = 405
        /\ (/\ aReq.method = "POST"
            /\ \/ aReq.body.isNull
               \/ aReq.body.url # "wellformed"
               \/ aReq.body.strategy \notin {"mobile", "desktop"})
               => aRes.status = 400
        /\ aRes.status \in {200, 400, 405, 500}
        /\ aRes.status = 200 <=> aRes.data.full \in LhrSamples
        /\ (Occurrences(aTrace, "launch") = 1 /\ aRes.data.full \notin LhrSamples)
               => aRes.status = 500

\* C8: the engine is invoked at most once and the browser launched at most
\* once in a request, and nothing is launched or run after the response.
C8_NoRetry ==
    /\ Occurrences(aTrace, "engine") <= 1
    /\ Occurrences(aTrace, "launch") <= 1
    /\ \A i \in 1..Len(aTrace), j \in 1..Len(aTrace) :
           (i < j /\ aTrace[i] = "respond") => aTrace[j] \notin {"launch", "engine"}

\* C8 witness: the engine failed once and the handler returned 500
C8_Witness ==
    /\ aPc = "done"
    /\ aRes.status = 500
    /\ aRes.errorDetails.kind \in {"resolve", "crashed", "verbatim", "unexpected", "default"}
    /\ Occurrences(aTrace, "engine") = 1

(***************************************************************************)
(* Properties of normalisation and rendering.                              *)
(***************************************************************************)
\* s is raw * 100 rounded to the nearest integer (halves up), raw = r / Scale
IsRounded(s, r) ==
    /\ s \in 0..100
    /\ 2 * s * Scale - Scale <= 200 * r
    /\ 200 * r < 2 * s * Scale + Scale

\* the displayed score that goes with a raw state
Displays(s, raw) ==
    IF raw \in 0..Scale THEN IsRounded(s, raw) ELSE s = NullScore

\* C9: once the engine has returned a report the response is 200, whatever
\* categories the report lacks; each of its five scores is the raw score times
\* 100 rounded, or null when the category is missing or its score null; and
\* the numbers the client derives (summary items with or without top-level
\* scores, gauges of the categories present) follow the same rule.
C9_ScoreIsRoundedOrAbsent ==
    /\ (responseData # NoData /\ aPc \in {"closing", "done"}) => aRes.status = 200
    /\ aRes.status = 200 =>
           \A c \in Categories : Displays(aRes.data.scores[c], aRes.data.full.categories[c])
    /\ (aRes.status = 200 /\ shown.rendered) =>
           \A c \in DisplayCategories :
               /\ Displays(shown.card[c], aRes.data.full.categories[c])
               /\ aRes.data.full.categories[c] # MissingCat
                      => Displays(shown.gauge[c], aRes.data.full.categories[c])

\* C9 witness: a report with performance 0.947 (94.7, shown as 95) and no
\* pwa category was answered 200, and the client derived its numbers from a
\* report object without top-level scores
C9_Witness ==
    /\ aRes.status = 200
    /\ 1000 * aRes.data.full.categories["performance"] = 947 * Scale
    /\ aRes.data.full.categories["pwa"] = MissingCat
    /\ aRes.data.scores["performance"] = 95
    /\ aRes.data.scores["pwa"] = NullScore
    /\ shown.rendered
    /\ ~shown.withTop
    /\ shown.card["performance"] = 95
    /\ shown.gauge["performance"] = 95

\* the audits of the section's category, as lhr.audits has them
ReferencedAudits == {allAudits[category.auditRefs[i]] : i \in 1..Len(category.auditRefs)}

InBucket(audit, bucket) == \E i \in 1..Len(bucket) : bucket[i].id = audit.id

\* C10: an audit whose display mode is notApplicable or error is in none of
\* the three buckets of its category and has no row in the rendered section,
\* whatever its score.
C10_NotApplicableAndErrorExcluded ==
    \A audit \in ReferencedAudits :
        (audit.defined /\ audit.mode \in {"notApplicable", "error"}) =>
            LET rel == relevantAudits(category, allAudits)
            IN /\ ~InBucket(audit, opportunitiesAndDiagnostics(rel))
               /\ ~InBucket(audit, manualChecks(rel))
               /\ ~InBucket(audit, passedAudits(rel))
               /\ \A i \in 1..Len(section.rows) : section.rows[i].id # audit.id

\* C10 witness: a section is rendered with its passed audits expanded, and a
\* notApplicable audit of score 1 is among the category's audits
C10_Witness ==
    /\ section.rendered
    /\ showPassed
    /\ Len(section.rows) >= 1
    /\ \E audit \in ReferencedAudits :
           audit.defined /\ audit.mode = "notApplicable" /\ audit.score = Scale

\* the ids of a bucket, in the bucket's order
BucketIds(bucket) == [i \in 1..Len(bucket) |-> bucket[i].id]

\* the references of the category are 1..n in order: a bucket keeps their order
\* when its ids increase
KeepsReferenceOrder(bucket) ==
    \A i, j \in 1..Len(bucket) : i < j => bucket[i].id < bucket[j].id

\* C11: of the audits left after notApplicable and error ones are dropped, an
\* audit is in opportunities/diagnostics exactly when its score is non-null,
\* below 1 and its mode is not manual; in manual exactly when its mode is
\* manual; in passed exactly when its score is 1 and its mode is neither manual
\* nor informative.  Each bucket keeps the order of the audit references, and
\* the rows of the section are the buckets in that order.
C11_BucketMembership ==
    (category.hasAuditRefs /\ category.id # "pwa") =>
        LET rel == relevantAudits(category, allAudits)
            opp == opportunitiesAndDiagnostics(rel)
            man == manualChecks(rel)
            pas == passedAudits(rel)
        IN /\ \A audit \in ReferencedAudits :
                  (audit.defined /\ audit.mode \notin {"notApplicable", "error"}) =>
                      /\ InBucket(audit, opp) <=>
                             (audit.score # NullScore /\ audit.score < Scale
                                  /\ audit.mode # "manual")
                      /\ InBucket(audit, man) <=> audit.mode = "manual"
                      /\ InBucket(audit, pas) <=>
                             (audit.score = Scale /\ audit.mode \notin {"manual", "informative"})
           /\ KeepsReferenceOrder(opp)
           /\ KeepsReferenceOrder(man)
           /\ KeepsReferenceOrder(pas)
           /\ section.rendered =>
                  BucketIds(section.rows) =
                      BucketIds(opp) \o (IF showManual THEN BucketIds(man) ELSE <<>>)
                                     \o (IF showPassed THEN BucketIds(pas) ELSE <<>>)

\* C11 witness: a category of two audits, an informative one of score 1 that
\* is in no bucket and a manual one of score 1 that is only in manual, with the
\* manual checks expanded
C11_Witness ==
    /\ section.rendered
    /\ showManual
    /\ Len(category.auditRefs) = 2
    /\ allAudits[1].defined /\ allAudits[1].mode = "informative" /\ allAudits[1].score = Scale
    /\ allAudits[2].defined /\ allAudits[2].mode = "manual" /\ allAudits[2].score = Scale
    /\ BucketIds(section.rows) = <<2>>


\* the three buckets of the section's category are all empty
BucketsEmpty ==
    LET rel == relevantAudits(category, allAudits)
    IN /\ Len(opportunitiesAndDiagnostics(rel)) = 0
       /\ Len(manualChecks(rel)) = 0
       /\ Len(passedAudits(rel)) = 0

\* C12: when the three buckets of a category are all empty its section renders
\* nothing, neither gauge nor title nor rows, whatever the category's score; a
\* category with auditRefs, other than pwa, that has a non-empty bucket is
\* rendered.
C12_EmptyBucketsRenderNothing ==
    /\ BucketsEmpty => section = NoSection
    /\ (category.hasAuditRefs /\ category.id # "pwa" /\ ~BucketsEmpty) => section.rendered

\* C12 witness: a category of score 0.947 whose two audits are an informative
\* one of score 1 and a numeric one of null score is not rendered
C12_Witness ==
    /\ category.id = "performance"
    /\ 1000 * category.score = 947 * Scale
    /\ Len(category.auditRefs) = 2
    /\ allAudits[1].defined /\ allAudits[1].mode = "informative" /\ allAudits[1].score = Scale
    /\ allAudits[2].defined /\ allAudits[2].mode = "numeric" /\ allAudits[2].score = NullScore
    /\ BucketsEmpty
    /\ ~section.rendered


(***************************************************************************)
(* Properties of the home page.                                            *)
(***************************************************************************)
\* the last request event of the page
LastEvent == hTrace[Len(hTrace)]

\* the page's request events come in rounds of four: mobile posted, mobile
\* settled, desktop posted, desktop settled, all for the url of the round
TraceInRounds ==
    \A i \in 1..Len(hTrace) :
        /\ hTrace[i].ev = (IF i % 2 = 1 THEN "post" ELSE "settle")
        /\ hTrace[i].strategy = (IF (i - 1) % 4 < 2 THEN "mobile" ELSE "desktop")
        /\ i % 4 # 1 => hTrace[i].url = hTrace[i - 1].url

\* C13: of one submission the mobile request is posted first and the desktop
\* request only once the mobile one has settled, with a report or with an
\* error; so at most one request is in flight at any time.
C13_MobileThenDesktop ==
    /\ Cardinality(inFlight) <= 1
    /\ TraceInRounds
    /\ (inFlight = {}) <=> (Len(hTrace) % 2 = 0)
    /\ (hTrace # <<>> /\ LastEvent.ev = "settle" /\ LastEvent.strategy = "mobile")
           => /\ hPc = "startDesktop"
              /\ Started("desktop", hPc)
    /\ hPc = "desktop" => ~mobileAnalysis.isLoading

\* C13 witness: the mobile audit failed and the desktop request of the same
\* submission is in flight
C13_Witness ==
    /\ mobileAnalysis.error # ""
    /\ ~mobileAnalysis.isLoading
    /\ desktopAnalysis.isLoading
    /\ inFlight = {ReportOf(currentUrl, "desktop")}
    /\ Len(hTrace) = 3

\* the request event a step adds, if it adds one
Posts(strategy) ==
    /\ Len(hTrace') = Len(hTrace) + 1
    /\ hTrace'[Len(hTrace')].strategy = strategy

\* C14: a step of the audit of one strategy (its start, its report, its
\* failure) leaves the other strategy's isLoading, report and error as they
\* were.
C14_OtherStrategyUntouched ==
    [][/\ Posts("mobile") => desktopAnalysis' = desktopAnalysis
       /\ Posts("desktop") => mobileAnalysis' = mobileAnalysis]_vars

\* C14 witness: the desktop audit failed and the mobile report of the same
\* submission is still there
C14_Witness ==
    /\ hPc = "idle"
    /\ Len(hTrace) = 4
    /\ mobileAnalysis = AnalysisState(FALSE, ReportOf(currentUrl, "mobile"), "")
    /\ desktopAnalysis = AnalysisState(FALSE, NoReport, "Desktop analysis failed.")


\* the text has something in it once trimmed, and no http:// or https:// first
NoScheme(text) ==
    /\ trim(text) # <<>>
    /\ ~startsWith(trim(text), "http://")
    /\ ~startsWith(trim(text), "https://")

\* a step of the home page's handleSubmit that is seen: it sets a form error
\* or goes on to the audits
HomeSubmitStep ==
    /\ hPc = "idle"
    /\ hPc' # hPc \/ (formError' # formError /\ formError' # "")

\* C15 as claimed: a submission on the home page of a url without http:// or
\* https:// goes on to the audits, with https:// put before the url.
C15_HomePrependsHttps ==
    [][(HomeSubmitStep /\ NoScheme(url)) =>
           /\ hPc' = "startMobile"
           /\ currentUrl' = <<"https://">> \o trim(url)]_vars

\* C15, amended: a submission on the home page of a url without http:// or
\* https:// sets the form error and posts nothing, and every url the home page
\* posts has the scheme the user typed; it is the security checker page that
\* puts https:// before such a url and posts the result.
C15_HomeRejectsCheckerPrepends ==
    [][/\ (HomeSubmitStep /\ NoScheme(url)) =>
              /\ formError' = "URL must start with http:// or https://"
              /\ hPc' = "idle"
              /\ inFlight' = inFlight
              /\ hTrace' = hTrace
       /\ Len(hTrace') > Len(hTrace) =>
              /\ hTrace'[Len(hTrace')].url = trim(hTrace'[Len(hTrace')].url)
              /\ ~NoScheme(hTrace'[Len(hTrace')].url)
              /\ hTrace'[Len(hTrace')].url # <<>>
       /\ (scanInFlight' # scanInFlight /\ scanInFlight' # {} /\ NoScheme(checkerUrl)) =>
              /\ scanInFlight' = {[url |-> <<"https://">> \o trim(checkerUrl)]}
              /\ checkerUrl' = <<"https://">> \o trim(checkerUrl)]_vars

\* C15 witness: example.com was submitted on both pages; the home page shows
\* the form error and has posted nothing, the security checker page has the
\* scan of https://example.com in flight
C15_Witness ==
    /\ url = <<"example.com">>
    /\ formError = "URL must start with http:// or https://"
    /\ hTrace = <<>>
    /\ inFlight = {}
    /\ checkerUrl = <<"https://", "example.com">>
    /\ scanInFlight = {[url |-> <<"https://", "example.com">>]}


(***************************************************************************)
(* Properties of the security scan.                                        *)
(***************************************************************************)
\* how many items of the response's two lists have one of the statuses
InResponse(statuses) ==
    CountOf(sRes.payload.malwareAndSecurityDetails \o sRes.payload.blacklistStatusDetails,
            statuses)

\* the risk and the severity of the response
Verdict == <<sRes.payload.securityRisk, sRes.payload.overallStatusSeverity>>

\* C16: over the two lists together, the scan's risk and severity are
\* Critical/danger if any item is infected or blacklisted; else High/danger if
\* two or more are fail; else Medium/warning if one is fail or three or more
\* are warn; else Low/warning if any is warn; else Minimal/good.
C16_RiskByThresholds ==
    sRes.status = 200 =>
        LET critical == InResponse({"infected", "blacklisted"})
            failed == InResponse({"fail"})
            warned == InResponse({"warn"})
        IN /\ critical > 0 => Verdict = <<"Critical", "danger">>
           /\ (critical = 0 /\ failed >= 2) => Verdict = <<"High", "danger">>
           /\ (critical = 0 /\ failed = 1) => Verdict = <<"Medium", "warning">>
           /\ (critical = 0 /\ failed = 0 /\ warned >= 3) => Verdict = <<"Medium", "warning">>
           /\ (critical = 0 /\ failed = 0 /\ warned \in {1, 2}) => Verdict = <<"Low", "warning">>
           /\ (critical = 0 /\ failed = 0 /\ warned = 0) => Verdict = <<"Minimal", "good">>
           /\ Verdict \in {<<"Critical", "danger">>, <<"High", "danger">>,
                           <<"Medium", "warning">>, <<"Low", "warning">>,
                           <<"Minimal", "good">>}

\* C16 witness: a checklist of three warn items and a not_blacklisted one was
\* answered Medium/warning
C16_Witness ==
    /\ sRes.status = 200
    /\ InResponse({"warn"}) = 3
    /\ InResponse({"not_blacklisted"}) = 1
    /\ InResponse({"fail", "infected", "blacklisted"}) = 0
    /\ Verdict = <<"Medium", "warning">>

\* C17: a scan of a valid url that contains malwareexample.com is answered
\* 200 with risk Critical and severity danger, whatever the url's scheme and
\* whether the page could be fetched.
C17_MalwareExampleIsCritical ==
    (/\ sPc = "done"
     /\ sReq.method = "POST"
     /\ scanSchema(sReq.body)
     /\ includes(sReq.body.url, "malwareexample.com"))
        => /\ sRes.status = 200
           /\ Verdict = <<"Critical", "danger">>

\* C17 witness: http://warningexample.com/malwareexample.com could not be
\* fetched and its scan was answered Critical/danger
C17_Witness ==
    /\ sRes.status = 200
    /\ sReq.body.url = <<"http://", "warningexample.com", "/", "malwareexample.com">>
    /\ InResponse({"fail"}) = 2
    /\ Verdict = <<"Critical", "danger">>


(***************************************************************************)
(* Properties of the gauges.                                               *)
(***************************************************************************)
\* the colour a class names
ColourOf(class) ==
    IF class \in {"text-green-500", "text-green-600", "text-green-700"} THEN "green"
    ELSE IF class \in {"text-yellow-500", "text-yellow-600", "text-yellow-700"} THEN "yellow"
    ELSE IF class \in {"text-red-500", "text-red-600", "text-red-700"} THEN "red"
    ELSE "none"

\* the colour of the thresholds for a score 0..100
ThresholdColour(score) ==
    IF score >= 90 THEN "green" ELSE IF score >= 50 THEN "yellow" ELSE "red"

\* a gauge drawn for the score has the threshold colour, ring and number
HasThresholdColour(classes, score) ==
    /\ score \in 0..100
    /\ ColourOf(classes.ring) = ThresholdColour(score)
    /\ ColourOf(classes.text) = ThresholdColour(score)

\* C18: for a score 0..100 the category gauge, the summary item and the
\* performance gauge all have the colour of the thresholds: green from 90,
\* yellow from 50 to 89, red below 50.  A raw score of 0.947 is shown as 95 in
\* green and a raw score of 0.5 as 50 in yellow.
C18_GaugesAgreeOnColour ==
    shown.rendered =>
        /\ \A c \in DisplayCategories :
               /\ shown.card[c] # NullScore => HasThresholdColour(shown.cardColour[c], shown.card[c])
               /\ shown.gauge[c] # NullScore
                      => HasThresholdColour(shown.gaugeColour[c], shown.gauge[c])
               /\ 1000 * aRes.data.full.categories[c] = 947 * Scale
                      => /\ shown.card[c] = 95 /\ shown.gauge[c] = 95
                         /\ ColourOf(shown.cardColour[c].ring) = "green"
                         /\ ColourOf(shown.gaugeColour[c].ring) = "green"
               /\ 2 * aRes.data.full.categories[c] = Scale
                      => /\ shown.card[c] = 50 /\ shown.gauge[c] = 50
                         /\ ColourOf(shown.cardColour[c].ring) = "yellow"
                         /\ ColourOf(shown.gaugeColour[c].ring) = "yellow"
        /\ shown.card["performance"] # NullScore
               => HasThresholdColour(shown.performanceGauge, shown.card["performance"])

\* C18 witness: a performance score of exactly 0.5 is shown as 50, in yellow,
\* by the summary item, the category gauge and the performance gauge
C18_Witness ==
    /\ shown.rendered
    /\ 2 * aRes.data.full.categories["performance"] = Scale
    /\ shown.card["performance"] = 50
    /\ shown.gauge["performance"] = 50
    /\ ColourOf(shown.cardColour["performance"].text) = "yellow"
    /\ ColourOf(shown.gaugeColour["performance"].text) = "yellow"
    /\ ColourOf(shown.performanceGauge.text) = "yellow"


(***************************************************************************)
(* Properties of the store.                                                *)
(***************************************************************************)
\* the rows there were are still there, as they were
RowsKept ==
    /\ Len(store') >= Len(store)
    /\ SubSeq(store', 1, Len(store)) = store

\* the step in which /api/analyze answers a signed-in user's request with 200
AuthenticatedSuccess ==
    /\ aRes.status # 200
    /\ aRes'.status = 200
    /\ userId # ""

\* a step of the /api/reports handler
ReportsStep == rPc' # rPc \/ rTrace' # rTrace \/ rRes' # rRes

\* C19 as claimed: rows are never updated or deleted, /api/reports never
\* changes the store, and every analyze answered 200 to a signed-in user adds
\* exactly one row.
C19_OneRowPerSuccessfulAnalyze ==
    [][/\ RowsKept
       /\ ReportsStep => store' = store
       /\ AuthenticatedSuccess => Len(store') = Len(store) + 1]_vars

\* C19, amended: rows are never updated or deleted, /api/reports never
\* changes the store, and the store grows only in the step that answers a
\* signed-in user's analyze with 200, by one row; that step adds no row when
\* the create call fails.
C19_AppendOnly ==
    [][/\ RowsKept
       /\ ReportsStep => store' = store
       /\ store' # store => (AuthenticatedSuccess /\ Len(store') = Len(store) + 1)
       /\ AuthenticatedSuccess => Len(store') \in {Len(store), Len(store) + 1}]_vars

\* C19 witness: two analyses have each added a row, the second after the
\* first and with the first unchanged, and /api/reports has answered since
C19_Witness ==
    /\ Len(store) = 2
    /\ store[1].createdAt < store[2].createdAt
    /\ rRes.status = 200
    /\ aRes.status = 200



\* which of the five failure conditions of an audit the request met
Condition ==
    IF failure.at = "noReport" THEN "noReport"
    ELSE IF failure.at = "launch"
            /\ "Failed to launch the browser process" \in failure.error.marks
    THEN "launch"
    ELSE IF failure.at # "engine" THEN "other"
    ELSE IF "performance mark has not been set" \in failure.error.marks THEN "early"
    ELSE IF {"Protocol error", "Target closed"} \subseteq failure.error.marks
    THEN "crashed"
    ELSE IF failure.error.marks \cap {"ERR_NAME_NOT_RESOLVED", "ECONNREFUSED"} # {}
    THEN "unreachable"
    ELSE "other"

\* the errorDetails the five conditions are to be told apart by
HasDetailsOf(condition, d) ==
    CASE condition = "unreachable" -> d.kind = "resolve"
      [] condition = "launch" -> d.kind = "launch"
      [] condition = "crashed" -> d.kind = "crashed"
      [] condition = "early" ->
            d.kind = "verbatim" /\ "Lighthouse failed early" \in d.marks
      [] condition = "noReport" ->
            /\ d.kind = "verbatim"
            /\ "Lighthouse failed early" \notin d.marks
            /\ "Lighthouse analysis failed to produce a report" \in d.marks
      [] OTHER -> TRUE

\* C20: a request that met one of the five failure conditions of an audit
\* (target unreachable, browser launch failure, browser crash, early engine
\* failure, engine returning no report) is answered 500 with the errorDetails
\* of that condition, which no other condition has; an engine error mentioning
\* 'performance mark has not been set' is reported as 'Lighthouse failed early'
C20_FailuresToldApart ==
    (aRes.status # 0 /\ Condition # "other") =>
        /\ aRes.status = 500
        /\ HasDetailsOf(Condition, aRes.errorDetails)

\* the detail sections of a report card
DetailParts == {"performanceGauge", "metrics", "diagnostics"}

Look(row) == <<row.icon, row.color>>

\* C22: every rendered audit row has a green check if it is shown as passed;
\* otherwise a yellow bulb if its mode is opportunity; otherwise, if its score
\* is non-null, a green check from 0.9, a yellow warning from 0.5 to below 0.9
\* and a red warning below 0.5; otherwise a blue info if its mode is manual;
\* otherwise a neutral info.  A manual audit with a score is coloured by it.
C22_AuditItemLook ==
    \A i \in 1..Len(section.rows) :
        LET row == section.rows[i]
            audit == allAudits[row.id]
            scored == audit.score # NullScore
        IN /\ row.isPassed => Look(row) = <<"check", "green">>
           /\ (~row.isPassed /\ audit.mode = "opportunity") => Look(row) = <<"bulb", "yellow">>
           /\ (~row.isPassed /\ audit.mode # "opportunity" /\ scored) =>
                  /\ 10 * audit.score >= 9 * Scale => Look(row) = <<"check", "green">>
                  /\ (2 * audit.score >= Scale /\ 10 * audit.score < 9 * Scale)
                         => Look(row) = <<"warning", "yellow">>
                  /\ 2 * audit.score < Scale => Look(row) = <<"warning", "red">>
           /\ (~row.isPassed /\ ~scored /\ audit.mode = "manual")
                  => Look(row) = <<"info", "blue">>
           /\ (~row.isPassed /\ ~scored /\ audit.mode \notin {"opportunity", "manual"})
                  => Look(row) = <<"info", "slate">>

\* C22 witness: the manual checks are open and a manual audit of score 0 has
\* the red warning
C22_Witness ==
    /\ showManual
    /\ \E i \in 1..Len(section.rows) :
           /\ allAudits[section.rows[i].id].mode = "manual"
           /\ allAudits[section.rows[i].id].score = 0
           /\ Look(section.rows[i]) = <<"warning", "red">>

\* the statuses of the items of a security-scan response
StatusesIn(payload) ==
    {payload.malwareAndSecurityDetails[i].status :
        i \in 1..Len(payload.malwareAndSecurityDetails)}
    \cup {payload.blacklistStatusDetails[i].status :
              i \in 1..Len(payload.blacklistStatusDetails)}
    \cup {payload.malwareSummary.status, payload.blacklistSummary.status}

\* C23: every item of a security-scan response (the entries of the two lists
\* and the two summary items) has a status of the enumeration pass, fail, warn,
\* info, clean, infected, not_blacklisted, blacklisted.
C23_StatusesOfEnumeration ==
    sRes.status = 200 => StatusesIn(sRes.payload) \subseteq Statuses

\* the calls the handler of /api/analyze has made for the current request
Called == {aTrace[i] : i \in 1..Len(aTrace)}

\* C24: a request of /api/analyze that is answered 400 or 405 has launched no
\* browser, has not invoked the engine and has written no report row, and one
\* answered 405 has not looked up the session either.
C24_ValidationBeforeSideEffects ==
    /\ aRes.status \in {400, 405} =>
           /\ Called \cap {"launch", "engine", "create", "close"} = {}
           /\ browser = "null"
           /\ process = "none"
    /\ aRes.status = 405 => Called = {"respond"}
    /\ aRes.status = 400 => aTrace = <<"session", "respond">>

\* C24 witness: a POST whose body the schema refuses has been answered 400
C24_Witness ==
    /\ aReq.method = "POST"
    /\ ~analyzeSchema(aReq.body)
    /\ aRes.status = 400
    /\ aPc = "done"

\* C25: when the handler of /api/analyze has returned, it has sent exactly one
\* response for the request, and it has invoked browser.close() at most once,
\* the path on which the debugging port cannot be determined included.
C25_OneResponseOneClose ==
    /\ Occurrences(aTrace, "respond") <= 1
    /\ Occurrences(aTrace, "close") <= 1
    /\ (Returned /\ aTrace # <<>>) => Occurrences(aTrace, "respond") = 1

\* the set of the ids of a bucket
IdSet(bucket) == {bucket[i].id : i \in 1..Len(bucket)}

\* C26: the three buckets CategorySection computes for a category are pairwise
\* disjoint, whatever the scores and display modes of its audits, so that no
\* audit has two rows in the section.
C26_BucketsDisjoint ==
    LET rel == relevantAudits(category, allAudits)
        opp == IdSet(opportunitiesAndDiagnostics(rel))
        man == IdSet(manualChecks(rel))
        pas == IdSet(passedAudits(rel))
    IN /\ opp \cap man = {}
       /\ opp \cap pas = {}
       /\ man \cap pas = {}
       /\ \A i, j \in 1..Len(section.rows) :
              section.rows[i].id = section.rows[j].id => i = j

\* C26 witness: a manual audit of score 0.5 and a numeric audit of score 1,
\* both lists open: one row each
C26_Witness ==
    /\ section.rendered
    /\ showManual
    /\ showPassed
    /\ Len(category.auditRefs) = 2
    /\ allAudits[1].defined /\ allAudits[1].mode = "manual" /\ 2 * allAudits[1].score = Scale
    /\ allAudits[2].defined /\ allAudits[2].mode = "numeric" /\ allAudits[2].score = Scale
    /\ BucketIds(section.rows) = <<1, 2>>

\* the analysis states of the two strategies
Analyses == {mobileAnalysis, desktopAnalysis}

\* while loading a strategy has neither report nor error, and it never has both
AnalysisWellFormed ==
    \A a \in Analyses :
        /\ a.isLoading => (a.report = NoReport /\ a.error = "")
        /\ ~(a.report # NoReport /\ a.error # "")

\* neither strategy is loading and each has exactly one of a report, an error
BothSettled ==
    \A a \in Analyses : ~a.isLoading /\ ((a.report # NoReport) <=> (a.error = ""))

\* C27 as stated: the analysis states are well formed, and once handleSubmit
\* has finished (it has returned with a form error, or the audits it started
\* have settled) neither strategy is loading and each holds exactly one of a
\* report or an error.
C27_SettledAfterAnySubmit ==
    /\ AnalysisWellFormed
    /\ (hPc = "idle" /\ (hTrace # <<>> \/ formError # "")) => BothSettled

\* C27: the analysis states are well formed, and once a handleSubmit that
\* passed the checks of the url has finished, neither strategy is loading and
\* each holds exactly one of a report or an error; a handleSubmit that returns
\* with a form error leaves both states as they were.
C27_SettledAfterAcceptedSubmit ==
    /\ AnalysisWellFormed
    /\ (hPc = "idle" /\ hTrace # <<>>) => BothSettled
    /\ (hPc = "idle" /\ hTrace = <<>>) =>
           \A a \in Analyses : a = AnalysisState(FALSE, NoReport, "")

\* C27 witness: a submission has finished, the mobile audit failed without any
\* message and the desktop audit brought a report
C27_Witness ==
    /\ hPc = "idle"
    /\ Len(hTrace) = 4
    /\ mobileAnalysis = AnalysisState(FALSE, NoReport, "Mobile analysis failed.")
    /\ desktopAnalysis.report = ReportOf(currentUrl, "desktop")
    /\ desktopAnalysis.error = ""

\* the audits of a submission and the history fetches are all over
PageQuiet == hPc = "idle" /\ hTrace # <<>> /\ historyFetches = {}

\* C28: for a signed-in user whose fetched history holds a report with a pwa
\* score, dbAveragePwaScore is a number and the Average PWA Score section is
\* shown with it, once the page is quiet.
C28_DbAverageShown ==
    (HasSession /\ PageQuiet
        /\ \E i \in 1..Len(dbPastReports) : dbPastReports[i].pwaScore # NullScore) =>
        /\ dbAveragePwaScore # NullScore
        /\ showPwaAverageSection

\* C29: for a signed-in user, once the submission is over and every history
\* fetch has resolved, the list shown is the answer to the most recently
\* issued fetch: the response of the fetch started after the mobile audit
\* (fetch 2, fetch 1 being that of the session effect) is never the one left
\* on the page when the fetch started after the desktop audit was answered.
C29_LatestFetchWins ==
    (HasSession /\ PageQuiet /\ latest.id = issued /\ latest.applied >= 2) =>
        dbPastReports = latest.rows

\* the checklist of the request holds the item of a failed fetch
FetchFailed ==
    \E i \in 1..Len(malwareAndSecurityItems) :
        malwareAndSecurityItems[i].check = "Website Fetch & Headers"

\* C30: a failed fetch of a valid target url adds one 'fail' item (next to the
\* simulated checks) to the malware-and-security list; the request is still
\* answered 200 with both lists as they were built, and its risk is Medium or
\* above, High or above when the url is not https.
C30_FetchFailureIsAFinding ==
    [][/\ ScanFetchFails =>
              /\ CountOf(malwareAndSecurityItems', {"fail"})
                     = CountOf(malwareAndSecurityItems, {"fail"}) + 1
              /\ Len(malwareAndSecurityItems')
                     = Len(malwareAndSecurityItems) + 1 + Len(MockChecks(sReq.body.url).malware)
       /\ (sPc' = "done" /\ FetchFailed') =>
              /\ sRes'.status = 200
              /\ sRes'.payload.malwareAndSecurityDetails = malwareAndSecurityItems'
              /\ sRes'.payload.blacklistStatusDetails = blacklistItems'
              /\ sRes'.payload.securityRisk \in {"Medium", "High", "Critical"}
              /\ ~startsWith(sReq'.body.url, "https://") =>
                     sRes'.payload.securityRisk \in {"High", "Critical"}]_vars

\* the fetch of an http page failed: answered 200, the risk is High
C30_Witness ==
    /\ sPc = "done"
    /\ FetchFailed
    /\ sReq.body.url = <<"http://", "example.com">>
    /\ sRes.status = 200
    /\ sRes.payload.securityRisk = "High"
    /\ Len(sRes.payload.malwareAndSecurityDetails) = 3

=============================================================================
